---- MODULE Spec2Model ----
(***************************************************************************)
(* Model of mcp-helm: the Helm client's repository index cache and version *)
(* resolution (lib/helm_client/client.go) and the image reference          *)
(* normalizer (lib/helm_parser/images.go).                                 *)
(*                                                                         *)
(* Go strings are modelled as sequences of one-character strings, so that  *)
(* prefix tests, splitting and slicing are computed as the code computes   *)
(* them.  Indexes are 0-based as in Go, -1 meaning "not found".            *)
(***************************************************************************)
EXTENDS Integers, Sequences, FiniteSets, TLC

VARIABLES
    \* ---- image normalizer (helm_parser.parseImage) ----
    image,          \* the raw image string handed to parseImage
    parsed,         \* TRUE once parseImage has returned
    ref,            \* the ImageReference it returned
    \* ---- Helm client (helm_client.HelmClient) ----
    reposMu,        \* HelmClient.reposMu: the caller holding it, or NoOne
    reposAllocated, \* FALSE while HelmClient.repos is the nil map
    repos,          \* HelmClient.repos: name -> *repo.ChartRepository
    pc,             \* position of each concurrent caller
    op,             \* the client operation each caller is running
    requestedRepo,  \* getRepo's local requestedRepo of each caller
    helmRepo,       \* what getRepo returned to each caller
    result,         \* what the client operation returned to each caller
    indexFileLocation, \* getRepo's downloaded index file of each caller
    calls,          \* number of index-path operations started so far
    populated,      \* history: per name, how often getRepo populated it
    reposAtLock,    \* history: the map as each caller found it at Lock
    \* ---- manifest image extractor (helm_parser.extractImagesFromManifests) ----
    manifests,      \* the rendered manifests handed to the extractor
    extracted,      \* the []ImageReference it returned
    extractDone,    \* TRUE once the extractor has returned
    \* ---- deduplicator (helm_parser.deduplicateImages) ----
    images,         \* the []ImageReference handed to deduplicateImages
    deduped,        \* the slice it returned
    dedupeDone,     \* TRUE once it has returned
    \* ---- image listing of a chart (helm_parser.GetChartImages) ----
    rootChart,      \* the loaded chart
    recursive,      \* whether subcharts are rendered on their own as well
    chartImages,    \* what GetChartImages returned
    chartDone,      \* TRUE once it has returned
    \* ---- dependency walk (helm_parser.GetChartDependencies) ----
    walkedChart,    \* the loaded chart
    dependencies,   \* what GetChartDependencies returned
    walkDone,       \* TRUE once it has returned
    \* ---- tool layer (tools.ExtractCommonParams) ----
    toolRequest,    \* the arguments of the tool call and the tool's mode
    toolParams,     \* what ExtractCommonParams returned
    toolDone,       \* TRUE once it has returned
    \* ---- OCI references (parseOCIReference, ExtractChartNameFromOCI) ----
    ociArgs,        \* repoURL, chartName and version handed to the client
    ociRef,         \* the reference and the chart name computed from them
    ociDone,        \* TRUE once both have been computed
    \* ---- pod specs handed to extractFromPodSpec directly ----
    podObj,         \* the object, the path and the source label
    podImages,      \* the []ImageReference returned
    podDone         \* TRUE once it has returned

extractVars == <<manifests, extracted, extractDone>>
dedupeVars  == <<images, deduped, dedupeDone>>
chartImagesVars == <<rootChart, recursive, chartImages, chartDone>>
walkVars    == <<walkedChart, dependencies, walkDone>>
toolVars    == <<toolRequest, toolParams, toolDone>>
ociVars     == <<ociArgs, ociRef, ociDone>>
podVars     == <<podObj, podImages, podDone>>
parserVars  == <<extractVars, dedupeVars, chartImagesVars, walkVars,
                 toolVars, ociVars, podVars>>
imageVars  == <<image, parsed, ref, parserVars>>
clientVars == <<reposMu, reposAllocated, repos, pc, op, requestedRepo,
                indexFileLocation, helmRepo, result, calls, populated, reposAtLock>>
vars       == <<image, parsed, ref, reposMu, reposAllocated, repos, pc, op,
                requestedRepo, indexFileLocation, helmRepo, result, calls,
                populated, reposAtLock, parserVars>>

----------------------------------------------------------------------------
(* Bounds of the model *)

\* longest image string handed to parseImage
MaxLen == 5
\* number of concurrent callers of the client
NumCallers == 2
\* number of index-path operations started in one behaviour
MaxCalls == 3
\* manifests in one rendered chart
MaxManifests == 2
\* subcharts of one chart
MaxSubcharts == 2
\* dependencies declared in one Chart.yaml
MaxDeclared == 2
\* entries in one container list
MaxContainers == 2
\* images in one list handed to deduplicateImages
MaxImages == 3

----------------------------------------------------------------------------
(* Go's strings package, on sequences of characters *)

\* characters image strings are built from: a name character and the four
\* separators parseImage looks at
ImageChars == {"a", ".", ":", "/", "@"}

RECURSIVE StringsUpTo(_, _)
StringsUpTo(chars, n) ==
    IF n = 0 THEN {<<>>}
    ELSE LET shorter == StringsUpTo(chars, n - 1)
         IN  shorter \cup {Append(s, c) : s \in {t \in shorter : Len(t) = n - 1}, c \in chars}

\* s[lo:hi]
Slice(s, lo, hi) == SubSeq(s, lo + 1, hi)

\* strings.HasPrefix / strings.HasSuffix
HasPrefix(s, p) == Len(s) >= Len(p) /\ SubSeq(s, 1, Len(p)) = p
HasSuffix(s, p) == Len(s) >= Len(p) /\ SubSeq(s, Len(s) - Len(p) + 1, Len(s)) = p

\* strings.TrimPrefix / strings.TrimSuffix
TrimPrefix(s, p) == IF HasPrefix(s, p) THEN Slice(s, Len(p), Len(s)) ELSE s
TrimSuffix(s, p) == IF HasSuffix(s, p) THEN Slice(s, 0, Len(s) - Len(p)) ELSE s

\* strings.Index / strings.LastIndex for a one-character separator
Index(s, c) ==
    IF \E i \in 1..Len(s) : s[i] = c
    THEN (CHOOSE i \in 1..Len(s) : s[i] = c /\ \A j \in 1..(i - 1) : s[j] # c) - 1
    ELSE -1
LastIndex(s, c) ==
    IF \E i \in 1..Len(s) : s[i] = c
    THEN (CHOOSE i \in 1..Len(s) : s[i] = c /\ \A j \in (i + 1)..Len(s) : s[j] # c) - 1
    ELSE -1

\* strings.Contains(s, substr)
Contains(s, substr) ==
    \E i \in 0..(Len(s) - Len(substr)) : Slice(s, i, i + Len(substr)) = substr

\* strings.Contains for a one-character substring
ContainsChar(s, c) == \E i \in 1..Len(s) : s[i] = c

\* strings.Split(s, sep) for a one-character separator: always at least one part
RECURSIVE Split(_, _)
Split(s, c) ==
    LET i == Index(s, c)
    IN  IF i = -1 THEN <<s>>
        ELSE <<Slice(s, 0, i)>> \o Split(Slice(s, i + 1, Len(s)), c)

\* strings.Join(parts, sep)
RECURSIVE Join(_, _)
Join(parts, sep) ==
    IF Len(parts) = 0 THEN <<>>
    ELSE IF Len(parts) = 1 THEN parts[1]
    ELSE parts[1] \o sep \o Join(Tail(parts), sep)

----------------------------------------------------------------------------
(* helm_parser.parseImage *)

Latest   == <<"l", "a", "t", "e", "s", "t">>
DockerIO == <<"d", "o", "c", "k", "e", "r", ".", "i", "o">>
Library  == <<"l", "i", "b", "r", "a", "r", "y", "/">>

\* the zero ImageReference
ImageReference ==
    [Registry |-> <<>>, Repository |-> <<>>, Tag |-> <<>>, Digest |-> <<>>,
     FullImage |-> <<>>, Source |-> <<>>]

\* SplitDigest keeping the default tag when a digest is present
SplitDigest_KeepsDefaultTag(r, workingImage) ==
    LET idx == LastIndex(workingImage, "@")
    IN  IF idx # -1
        THEN [ref |-> [r EXCEPT !.Digest = Slice(workingImage, idx + 1, Len(workingImage))],
              workingImage |-> Slice(workingImage, 0, idx)]
        ELSE [ref |-> r, workingImage |-> workingImage]

\* lines 37-41: the digest is cut at the last '@' and the tag default dropped
SplitDigest(r, workingImage) ==
    LET idx == LastIndex(workingImage, "@")
    IN  IF idx # -1
        THEN [ref |-> [r EXCEPT !.Digest = Slice(workingImage, idx + 1, Len(workingImage)),
                                !.Tag = <<>>],
              workingImage |-> Slice(workingImage, 0, idx)]
        ELSE [ref |-> r, workingImage |-> workingImage]

\* lines 44-50: the text after the last ':' is a tag unless it contains '/'
\* a tag split at the last ':' wherever it stands
SplitTag_AnyColon(r, workingImage) ==
    LET idx == LastIndex(workingImage, ":")
    IN  IF idx # -1
        THEN [ref |-> [r EXCEPT !.Tag = Slice(workingImage, idx + 1, Len(workingImage))],
              workingImage |-> Slice(workingImage, 0, idx)]
        ELSE [ref |-> r, workingImage |-> workingImage]

SplitTag(r, workingImage) ==
    LET idx        == LastIndex(workingImage, ":")
        afterColon == Slice(workingImage, idx + 1, Len(workingImage))
    IN  IF idx # -1 /\ ~ContainsChar(afterColon, "/")
        THEN [ref |-> [r EXCEPT !.Tag = afterColon],
              workingImage |-> Slice(workingImage, 0, idx)]
        ELSE [ref |-> r, workingImage |-> workingImage]

\* SplitPath testing the first of two segments for '.' only
SplitPath_DotOnly(r, workingImage) ==
    LET parts == Split(workingImage, "/")
    IN  CASE Len(parts) = 1 ->
               [r EXCEPT !.Registry = DockerIO, !.Repository = Library \o parts[1]]
          [] Len(parts) = 2 ->
               IF ContainsChar(parts[1], ".")
               THEN [r EXCEPT !.Registry = parts[1], !.Repository = parts[2]]
               ELSE [r EXCEPT !.Registry = DockerIO, !.Repository = workingImage]
          [] OTHER ->
               [r EXCEPT !.Registry = parts[1], !.Repository = Join(Tail(parts), <<"/">>)]

\* lines 52-73: registry and repository from the number of path segments
SplitPath(r, workingImage) ==
    LET parts == Split(workingImage, "/")
    IN  CASE Len(parts) = 1 ->
               [r EXCEPT !.Registry = DockerIO, !.Repository = Library \o parts[1]]
          [] Len(parts) = 2 ->
               IF ContainsChar(parts[1], ".") \/ ContainsChar(parts[1], ":")
               THEN [r EXCEPT !.Registry = parts[1], !.Repository = parts[2]]
               ELSE [r EXCEPT !.Registry = DockerIO, !.Repository = workingImage]
          [] OTHER ->
               [r EXCEPT !.Registry = parts[1], !.Repository = Join(Tail(parts), <<"/">>)]

\* parseImage recording the stripped working image as FullImage
parseImage_FullImageStripped(img) ==
    LET ref0 == [ImageReference EXCEPT !.FullImage = img, !.Tag = Latest]
    IN  IF img = <<>> THEN ref0
        ELSE LET d == SplitDigest(ref0, img)
                 t == SplitTag(d.ref, d.workingImage)
             IN  [SplitPath(t.ref, t.workingImage) EXCEPT !.FullImage = t.workingImage]

parseImage(img) ==
    LET ref0 == [ImageReference EXCEPT !.FullImage = img, !.Tag = Latest]
    IN  IF img = <<>> THEN ref0
        ELSE LET d == SplitDigest(ref0, img)
                 t == SplitTag(d.ref, d.workingImage)
             IN  SplitPath(t.ref, t.workingImage)

----------------------------------------------------------------------------
(* helm_parser: rendered manifests as generic YAML trees *)

\* A decoded YAML node: its Go dynamic type and its value.  yaml.v2 decodes
\* the document into map[string]interface{} and every nested mapping into
\* map[interface{}]interface{}; the two representations are kept apart.
Node(t, v) == [t |-> t, v |-> v]
Nil        == Node("nil", <<>>)
Str(s)     == Node("string", s)
List(l)    == Node("[]interface{}", l)
SMap(f)    == Node("map[string]interface{}", f)
IMap(f)    == Node("map[interface{}]interface{}", f)

\* m[key] on either map representation: nil when the key is absent
Get(m, key) == IF key \in DOMAIN m.v THEN m.v[key] ELSE Nil

\* x.(string) with the zero value on mismatch
AsString(n) == IF n.t = "string" THEN n.v ELSE <<>>

\* A fragment of a manifest between "---" separators: blank text, text the
\* YAML decoder rejects, or a document decoded into obj
Fragment(f, obj) == [f |-> f, obj |-> obj]
Blank     == Fragment("blank", Nil)
Malformed == Fragment("malformed", Nil)
Doc(obj)  == Fragment("yaml", obj)

\* the kind names of the switch of extractImagesFromDocument, and one other
Kind == [Deployment  |-> <<"D", "e", "p", "l", "o", "y", "m", "e", "n", "t">>,
         StatefulSet |-> <<"S", "t", "a", "t", "e", "f", "u", "l", "S", "e", "t">>,
         DaemonSet   |-> <<"D", "a", "e", "m", "o", "n", "S", "e", "t">>,
         ReplicaSet  |-> <<"R", "e", "p", "l", "i", "c", "a", "S", "e", "t">>,
         Job         |-> <<"J", "o", "b">>,
         CronJob     |-> <<"C", "r", "o", "n", "J", "o", "b">>,
         Pod         |-> <<"P", "o", "d">>,
         ConfigMap   |-> <<"C", "o", "n", "f", "i", "g", "M", "a", "p">>]

\* the loop of navigateToPath (lines 225-234): a step through anything but
\* a map of either representation ends the walk with nil
RECURSIVE Walk(_, _)
Walk(current, path) ==
    IF path = <<>> THEN current
    ELSE IF current.t \in {"map[string]interface{}", "map[interface{}]interface{}"}
         THEN Walk(Get(current, Head(path)), Tail(path))
         ELSE Nil

\* navigateToPath (lines 222-240): the node reached, when it is a
\* map[interface{}]interface{}; nil otherwise
navigateToPath(obj, path) ==
    LET r == Walk(obj, path)
    IN  IF r.t = "map[interface{}]interface{}" THEN r ELSE Nil

\* a container loop without the test for the empty image string
RECURSIVE ContainerImages_KeepEmpty(_, _)
ContainerImages_KeepEmpty(containers, source) ==
    IF containers = <<>> THEN <<>>
    ELSE LET c    == Head(containers)
             rest == ContainerImages_KeepEmpty(Tail(containers), source)
         IN  IF /\ c.t = "map[interface{}]interface{}"
                /\ Get(c, "image").t = "string"
             THEN <<[parseImage(Get(c, "image").v) EXCEPT !.Source = source]>> \o rest
             ELSE rest

\* lines 195-205 and 207-217: the images of one container list
RECURSIVE ContainerImages(_, _)
ContainerImages(containers, source) ==
    IF containers = <<>> THEN <<>>
    ELSE LET c    == Head(containers)
             rest == ContainerImages(Tail(containers), source)
         IN  IF /\ c.t = "map[interface{}]interface{}"
                /\ Get(c, "image").t = "string"
                /\ Get(c, "image").v # <<>>
             THEN <<[parseImage(Get(c, "image").v) EXCEPT !.Source = source]>> \o rest
             ELSE rest

\* a pod spec whose init containers carry the plain source label
extractFromPodSpec_InitUnmarked(obj, path, source) ==
    LET spec == navigateToPath(obj, path)
    IN  IF spec.t = "nil" THEN <<>>
        ELSE (IF Get(spec, "containers").t = "[]interface{}"
              THEN ContainerImages(Get(spec, "containers").v, source)
              ELSE <<>>)
             \o
             (IF Get(spec, "initContainers").t = "[]interface{}"
              THEN ContainerImages(Get(spec, "initContainers").v, source)
              ELSE <<>>)

\* extractFromPodSpec (lines 187-220)
extractFromPodSpec(obj, path, source) ==
    LET spec == navigateToPath(obj, path)
    IN  IF spec.t = "nil" THEN <<>>
        ELSE (IF Get(spec, "containers").t = "[]interface{}"
              THEN ContainerImages(Get(spec, "containers").v, source)
              ELSE <<>>)
             \o
             (IF Get(spec, "initContainers").t = "[]interface{}"
              THEN ContainerImages(Get(spec, "initContainers").v,
                                   source \o <<" ", "(", "i", "n", "i", "t", ")">>)
              ELSE <<>>)

\* a switch that sends CronJob down the path of Job
extractImagesFromDocument_CronJobAsJob(doc) ==
    IF doc.f # "yaml" THEN <<>>
    ELSE LET obj      == doc.obj
             kind     == AsString(Get(obj, "kind"))
             metadata == Get(obj, "metadata")
             name     == IF metadata.t = "map[interface{}]interface{}"
                         THEN AsString(Get(metadata, "name")) ELSE <<>>
             source   == IF name # <<>> THEN kind \o <<"/">> \o name ELSE kind
         IN  CASE kind \in {Kind.Deployment, Kind.StatefulSet, Kind.DaemonSet,
                            Kind.ReplicaSet, Kind.Job, Kind.CronJob} ->
                    extractFromPodSpec(obj, <<"spec", "template", "spec">>, source)
               [] kind = Kind.Pod ->
                    extractFromPodSpec(obj, <<"spec">>, source)
               [] OTHER -> <<>>

\* extractImagesFromDocument (lines 154-185): nil when the decoder fails
extractImagesFromDocument(doc) ==
    IF doc.f # "yaml" THEN <<>>
    ELSE LET obj      == doc.obj
             kind     == AsString(Get(obj, "kind"))
             metadata == Get(obj, "metadata")
             name     == IF metadata.t = "map[interface{}]interface{}"
                         THEN AsString(Get(metadata, "name")) ELSE <<>>
             source   == IF name # <<>> THEN kind \o <<"/">> \o name ELSE kind
         IN  CASE kind \in {Kind.Deployment, Kind.StatefulSet,
                            Kind.DaemonSet, Kind.ReplicaSet} ->
                    extractFromPodSpec(obj, <<"spec", "template", "spec">>, source)
               [] kind = Kind.Job ->
                    extractFromPodSpec(obj, <<"spec", "template", "spec">>, source)
               [] kind = Kind.CronJob ->
                    extractFromPodSpec(obj, <<"spec", "jobTemplate", "spec",
                                              "template", "spec">>, source)
               [] kind = Kind.Pod ->
                    extractFromPodSpec(obj, <<"spec">>, source)
               [] OTHER -> <<>>

\* a fragment loop that gives up at the first fragment the decoder rejects
RECURSIVE ManifestImages_AbortOnMalformed(_)
ManifestImages_AbortOnMalformed(docs) ==
    IF docs = <<>> THEN <<>>
    ELSE IF Head(docs).f = "blank" THEN ManifestImages_AbortOnMalformed(Tail(docs))
    ELSE IF Head(docs).f = "malformed" THEN <<>>
    ELSE extractImagesFromDocument(Head(docs))
            \o ManifestImages_AbortOnMalformed(Tail(docs))

\* lines 139-148: the fragments of one manifest, blank ones skipped
RECURSIVE ManifestImages(_)
ManifestImages(docs) ==
    IF docs = <<>> THEN <<>>
    ELSE IF Head(docs).f = "blank" THEN ManifestImages(Tail(docs))
    ELSE extractImagesFromDocument(Head(docs)) \o ManifestImages(Tail(docs))

\* extractImagesFromManifests (lines 135-152)
RECURSIVE extractImagesFromManifests(_)
extractImagesFromManifests(ms) ==
    IF ms = <<>> THEN <<>>
    ELSE ManifestImages(Head(ms)) \o extractImagesFromManifests(Tail(ms))

----------------------------------------------------------------------------
(* helm_parser.deduplicateImages *)

\* every order in which ranging over a Go map may yield its values
Orderings(values) ==
    {r \in [1..Cardinality(values) -> values] :
        \A i, j \in 1..Cardinality(values) : r[i] = r[j] => i = j}

\* a map whose collisions append the new source without the substring test
RECURSIVE seen_AlwaysAppends(_, _)
seen_AlwaysAppends(imgs, n) ==
    IF n = 0 THEN [k \in {} |-> ImageReference]
    ELSE LET prev == seen_AlwaysAppends(imgs, n - 1)
             img  == imgs[n]
             key  == img.FullImage
         IN  IF key \in DOMAIN prev
             THEN [prev EXCEPT ![key].Source = @ \o <<",", " ">> \o img.Source]
             ELSE [k \in DOMAIN prev \cup {key} |-> IF k = key THEN img ELSE prev[k]]

\* a map keyed by repository instead of fullImage, keeping the first entry
seen_KeyedByRepository(imgs, n) ==
    [k \in {imgs[i].Repository : i \in 1..n} |->
        imgs[CHOOSE i \in 1..n : imgs[i].Repository = k
                                 /\ \A j \in 1..(i - 1) : imgs[j].Repository # k]]

\* the map seen after the first n images (lines 243-254)
RECURSIVE seen(_, _)
seen(imgs, n) ==
    IF n = 0 THEN [k \in {} |-> ImageReference]
    ELSE LET prev == seen(imgs, n - 1)
             img  == imgs[n]
             key  == img.FullImage
         IN  IF key \in DOMAIN prev
             THEN IF ~Contains(prev[key].Source, img.Source)
                  THEN [prev EXCEPT ![key].Source = @ \o <<",", " ">> \o img.Source]
                  ELSE prev
             ELSE [k \in DOMAIN prev \cup {key} |-> IF k = key THEN img ELSE prev[k]]

\* deduplicateImages (lines 242-262): the values of seen in the order the
\* map iteration yields them, which Go leaves unspecified: every order
deduplicateImages(imgs) ==
    LET m == seen(imgs, Len(imgs))
    IN  Orderings({m[k] : k \in DOMAIN m})

----------------------------------------------------------------------------
(* helm_parser.GetChartImages *)

\* the characters of image references and source labels in byte order
ByteOrder == <<" ", "(", ")", ",", ".", "/", ":", "@", "D", "J", "P",
               "a", "b", "c", "d", "e", "i", "k", "l", "n", "o", "r",
               "s", "t", "y">>

\* a < b on Go strings: byte-wise lexicographic order
Less(a, b) ==
    LET Byte(c) == CHOOSE i \in 1..Len(ByteOrder) : ByteOrder[i] = c
    IN  \E k \in 1..Len(b) :
            /\ k <= Len(a) + 1
            /\ \A j \in 1..(k - 1) : a[j] = b[j]
            /\ (k = Len(a) + 1 \/ Byte(a[k]) < Byte(b[k]))

\* a listing returned in the order deduplicateImages produced
SortByFullImage_Unsorted(imgs) == imgs

\* sort.Slice(images, images[i].FullImage < images[j].FullImage), lines
\* 96-99; the keys are distinct after deduplicateImages, so the order of the
\* result is determined (equal keys would keep their relative order here)
SortByFullImage(imgs) ==
    LET Before(i, j) == \/ Less(imgs[i].FullImage, imgs[j].FullImage)
                        \/ imgs[i].FullImage = imgs[j].FullImage /\ i < j
        Rank(j)      == 1 + Cardinality({i \in 1..Len(imgs) : Before(i, j)})
    IN  [r \in 1..Len(imgs) |-> imgs[CHOOSE j \in 1..Len(imgs) : Rank(j) = r]]

\* what GetChartImages returns: an error or a list
ImageList(err, list) == [err |-> err, images |-> list]

\* GetChartImages (lines 78-102): every result the call can return.  The
\* engine hands the rendered templates over as a map, so the manifests
\* reach the extractor in any order (renderChart, lines 124-130).
RECURSIVE GetChartImages(_, _)
RECURSIVE SubchartImages(_, _)
GetChartImages(c, rec) ==
    IF ~c.renders THEN {ImageList(TRUE, <<>>)}
    ELSE LET own  == {extractImagesFromManifests(ms) : ms \in Orderings(c.rendered)}
             subs == IF rec THEN SubchartImages(c.deps, rec)
                     ELSE {ImageList(FALSE, <<>>)}
         IN  IF \E sub \in subs : sub.err THEN {ImageList(TRUE, <<>>)}
             ELSE {ImageList(FALSE, SortByFullImage(d)) :
                      d \in UNION {deduplicateImages(o \o sub.images) :
                                      o \in own, sub \in subs}}

\* lines 86-94: the images of the subcharts in order, or the first failure
SubchartImages(deps, rec) ==
    IF deps = <<>> THEN {ImageList(FALSE, <<>>)}
    ELSE LET first == GetChartImages(Head(deps), rec)
             rest  == SubchartImages(Tail(deps), rec)
         IN  IF \E f \in first : f.err THEN {ImageList(TRUE, <<>>)}
             ELSE IF \E r \in rest : r.err THEN {ImageList(TRUE, <<>>)}
             ELSE {ImageList(FALSE, f.images \o r.images) : f \in first, r \in rest}

----------------------------------------------------------------------------
(* helm_parser.GetChartDependencies *)

\* type dependencyItem (lines 16-20)
dependencyItem(name, version, repository) ==
    [Name |-> name, Version |-> version, Repository |-> repository]

\* json.Marshal(dep) with the field names of the struct tags (line 50)
Marshal(dep) ==
    <<"{", "\"", "n", "a", "m", "e", "\"", ":", "\"">> \o dep.Name \o <<"\"", ",", "\"", "v", "e", "r", "s", "i", "o", "n", "\"", ":", "\"">> \o dep.Version
        \o <<"\"", ",", "\"", "r", "e", "p", "o", "s", "i", "t", "o", "r", "y", "\"", ":", "\"">> \o dep.Repository \o <<"\"", "}">>

\* what GetChartDependencies returns: an error, or a slice that may be nil
Dependencies(err, isNil, items) == [err |-> err, isNil |-> isNil, items |-> items]

\* a test for the file that lets a chart without Chart.yaml through
NotFound_Never(c) == FALSE

\* lines 23-33: no raw file named Chart.yaml, or one without content
NotFound(c) == c.chartYAML.file \in {"absent", "empty"}

\* a validation that looks at the name only
Incomplete_NameOnly(dep) == dep.Name = <<>>

\* line 47: a declared item without name, version or repository
Incomplete(dep) == dep.Name = <<>> \/ dep.Version = <<>> \/ dep.Repository = <<>>

\* a match on the name alone
Matches_NameOnly(sub, dep) == sub.name = dep.Name

\* line 56: the loaded subchart a declared item stands for
Matches(sub, dep) == sub.name = dep.Name /\ sub.version = dep.Version

RECURSIVE GetChartDependencies(_)
RECURSIVE DeclaredDependencies(_, _)

\* GetChartDependencies (lines 22-68)
GetChartDependencies(c) ==
    IF NotFound(c) THEN Dependencies(TRUE, TRUE, <<>>)
    ELSE IF c.chartYAML.file = "malformed" THEN Dependencies(TRUE, TRUE, <<>>)
    ELSE IF Len(c.chartYAML.dependencies) = 0 THEN Dependencies(FALSE, TRUE, <<>>)
    ELSE DeclaredDependencies(c, Len(c.chartYAML.dependencies))

\* the loop of lines 45-67 over the first n declared items
DeclaredDependencies(c, n) ==
    IF n = 0 THEN Dependencies(FALSE, FALSE, <<>>)
    ELSE LET before   == DeclaredDependencies(c, n - 1)
             dep      == c.chartYAML.dependencies[n]
             matching == {i \in 1..Len(c.deps) : Matches(c.deps[i], dep)}
             first    == CHOOSE i \in matching : \A j \in matching : i <= j
             sub      == GetChartDependencies(c.deps[first])
         IN  IF before.err THEN before
             ELSE IF Incomplete(dep) THEN Dependencies(TRUE, TRUE, <<>>)
             ELSE IF matching = {}
                  THEN Dependencies(FALSE, FALSE, Append(before.items, Marshal(dep)))
             ELSE IF sub.err THEN Dependencies(TRUE, TRUE, <<>>)
             ELSE Dependencies(FALSE, FALSE,
                               Append(before.items, Marshal(dep)) \o sub.items)

----------------------------------------------------------------------------
(* helm_client: locators, references and the routing test *)

OCIScheme == <<"o", "c", "i", ":", "/", "/">>

\* IsOCI testing the scheme name without its "//"
IsOCI_SchemeNameOnly(url) == HasPrefix(url, <<"o", "c", "i", ":">>)

\* IsOCI delegates to registry.IsOCI: the "oci://" prefix test
IsOCI(url) == HasPrefix(url, OCIScheme)

parseOCIReference(repoURL, chartName, version) ==
    LET ref0 == TrimPrefix(repoURL, OCIScheme)
        idx  == Index(ref0, ":")
        refWithoutTag == IF idx # -1 THEN Slice(ref0, 0, idx) ELSE ref0
        trimmed == TrimSuffix(refWithoutTag, <<"/">>)
        ref1 == IF chartName # <<>>
                THEN IF ~HasSuffix(trimmed, <<"/">> \o chartName) /\ trimmed # chartName
                     THEN trimmed \o <<"/">> \o chartName
                     ELSE trimmed
                ELSE ref0
    IN  IF version # <<>> THEN ref1 \o <<":">> \o version ELSE ref1

\* a chart name that keeps the tag of the last segment
ExtractChartNameFromOCI_KeepsTag(repoURL) ==
    LET ref0  == TrimPrefix(repoURL, OCIScheme)
        parts == Split(ref0, "/")
    IN  parts[Len(parts)]

ExtractChartNameFromOCI(repoURL) ==
    LET ref0  == TrimPrefix(repoURL, OCIScheme)
        parts == Split(ref0, "/")
        last  == parts[Len(parts)]
        idx   == Index(last, ":")
    IN  IF idx # -1 THEN Slice(last, 0, idx) ELSE last

----------------------------------------------------------------------------
(* Chart versions and repository indexes *)

\* value of a decimal digit character
Digit(c) ==
    CASE c = "0" -> 0 [] c = "1" -> 1 [] c = "2" -> 2 [] c = "9" -> 9

\* the semantic version "N" as the number N: the order SortEntries sorts by
RECURSIVE SemverMajor(_)
SemverMajor(v) ==
    IF Len(v) = 0 THEN 0
    ELSE 10 * SemverMajor(SubSeq(v, 1, Len(v) - 1)) + Digit(v[Len(v)])

\* version strings found in indexes and tag lists: valid semantic versions,
\* chosen so that their numeric order differs from their text order
V2  == <<"2">>
V9  == <<"9">>
V10 == <<"1", "0">>
Versions == {V2, V9, V10}

ChartC == <<"c">>
ChartD == <<"d">>

\* repo.ChartVersion: the fields the client reads
ChartVersion(name, version, urls) == [Name |-> name, Version |-> version, URLs |-> urls]
CV(name, version) == ChartVersion(name, version, <<name \o <<"-">> \o version>>)

\* an index file with no entries at all
NoEntries == [k \in {} |-> <<>>]

\* index files a repository may serve, as parsed by the loader (entries in
\* file order; an entry list may be empty after invalid records are dropped)
IndexFiles ==
    { NoEntries,
      (ChartC :> <<CV(ChartC, V9), CV(ChartC, V10), CV(ChartC, V2)>>),
      (ChartC :> <<>>) @@ (ChartD :> <<CV(ChartD, V2), ChartVersion(ChartD, V9, <<>>)>>) }

\* ChartVersions sorted in descending version order (sort.Reverse of Less)
RECURSIVE InsertDesc(_, _)
InsertDesc(cv, sorted) ==
    IF sorted = <<>> THEN <<cv>>
    ELSE IF SemverMajor(cv.Version) >= SemverMajor(Head(sorted).Version)
         THEN <<cv>> \o sorted
         ELSE <<Head(sorted)>> \o InsertDesc(cv, Tail(sorted))
RECURSIVE SortDesc(_)
SortDesc(cvs) ==
    IF cvs = <<>> THEN <<>> ELSE InsertDesc(Head(cvs), SortDesc(Tail(cvs)))

\* SortEntries leaving the file order
SortEntries_FileOrder(entries) == entries

\* IndexFile.SortEntries: every entry list sorted, keys untouched
SortEntries(entries) == [k \in DOMAIN entries |-> SortDesc(entries[k])]

\* tag lists the registry may return: semver tags in descending order
TagLists == { <<>>, <<V9>>, <<V10, V9, V2>> }

\* what registryClient.Tags returns: an error, or a tag list
TagsResults == {[err |-> TRUE, tags |-> <<>>]} \cup {[err |-> FALSE, tags |-> t] : t \in TagLists}

\* repository locators handed to the client: the empty string, a plain URL,
\* a near miss of the scheme, and OCI references with and without chart/tag
Locators ==
    { <<>>,
      <<"h">>,
      <<"o", "c", "i", ":", "/">>,
      OCIScheme,
      OCIScheme \o <<"r", "/", "c">>,
      OCIScheme \o <<"r", "/", "c", ":", "9">> }

ChartNames == {<<>>, ChartC, ChartD}

----------------------------------------------------------------------------
(* helm_client: results of the client operations *)

\* what an operation returns: ok is "err == nil"; via names the collaborator
\* the operation went through ("registry" for OCI, "index" for the cached
\* index); list and str carry the returned slice or string
Result(ok, via, list, str) == [ok |-> ok, via |-> via, list |-> list, str |-> str]
NoResult == Result(FALSE, "none", <<>>, <<>>)
Failure(via) == Result(FALSE, via, <<>>, <<>>)

\* what getRepo returns: the repository, or an error naming the failed step
NoRepo == [id |-> 0, Config |-> [Name |-> <<>>, URL |-> <<>>], IndexFile |-> NoEntries]
GetRepoResult(err, repo) == [err |-> err, repo |-> repo]

\* order of the characters of chart names, for sort.Strings
CharRank(c) == CASE c = "c" -> 1 [] c = "d" -> 2 [] OTHER -> 0
RECURSIVE StrLess(_, _)
StrLess(a, b) ==
    IF b = <<>> THEN FALSE
    ELSE IF a = <<>> THEN TRUE
    ELSE IF CharRank(Head(a)) # CharRank(Head(b)) THEN CharRank(Head(a)) < CharRank(Head(b))
    ELSE StrLess(Tail(a), Tail(b))
RECURSIVE SortStrings(_)
SortStrings(S) ==
    IF S = {} THEN <<>>
    ELSE LET m == CHOOSE x \in S : \A y \in S \ {x} : StrLess(x, y)
         IN  <<m>> \o SortStrings(S \ {m})

\* ListCharts, OCI branch (lines 253-261)
ListCharts_OCI(repoURL) ==
    LET chartName == ExtractChartNameFromOCI(repoURL)
    IN  IF chartName = <<>> THEN Failure("registry")
        ELSE Result(TRUE, "registry", <<chartName>>, <<>>)

\* ListCharts, index branch (lines 263-284): the Name of the first version
\* of every entry, sorted
ListCharts_HTTP(r) ==
    IF r.err # "" THEN Failure("index")
    ELSE LET entries == r.repo.IndexFile
             names == {entries[k][1].Name : k \in {x \in DOMAIN entries : Len(entries[x]) > 0}}
         IN  Result(TRUE, "index", SortStrings(names), <<>>)

\* ListChartVersions, OCI branch (lines 288-296)
ListChartVersions_OCI(repoURL, chart, tagsResult) ==
    IF tagsResult.err THEN Failure("registry")
    ELSE Result(TRUE, "registry", tagsResult.tags, <<>>)

\* ListChartVersions failing for a chart that is not in the index
ListChartVersions_HTTP_NotFound(r, chart) ==
    IF r.err # "" THEN Failure("index")
    ELSE LET entries == r.repo.IndexFile
         IN  IF chart \in DOMAIN entries /\ Len(entries[chart]) > 0
             THEN Result(TRUE, "index",
                         [i \in 1..Len(entries[chart]) |-> entries[chart][i].Version], <<>>)
             ELSE Failure("index")

\* ListChartVersions, index branch (lines 298-315)
ListChartVersions_HTTP(r, chart) ==
    IF r.err # "" THEN Failure("index")
    ELSE LET entries == r.repo.IndexFile
         IN  IF chart \in DOMAIN entries
             THEN Result(TRUE, "index",
                         [i \in 1..Len(entries[chart]) |-> entries[chart][i].Version], <<>>)
             ELSE Result(TRUE, "index", <<>>, <<>>)

\* GetChartLatestVersion answering "" when the registry has no tags
GetChartLatestVersion_OCI_NoTagsOk(repoURL, chartName, tagsResult) ==
    IF tagsResult.err THEN Failure("registry")
    ELSE IF Len(tagsResult.tags) = 0 THEN Result(TRUE, "registry", <<>>, <<>>)
    ELSE Result(TRUE, "registry", <<>>, tagsResult.tags[1])

\* GetChartLatestVersion, OCI branch (lines 465-476)
GetChartLatestVersion_OCI(repoURL, chartName, tagsResult) ==
    IF tagsResult.err THEN Failure("registry")
    ELSE IF Len(tagsResult.tags) = 0 THEN Failure("registry")
    ELSE Result(TRUE, "registry", <<>>, tagsResult.tags[1])

\* GetChartLatestVersion, index branch (lines 478-490)
GetChartLatestVersion_HTTP(r, chartName) ==
    IF r.err # "" THEN Failure("index")
    ELSE LET entries == r.repo.IndexFile
         IN  IF chartName \notin DOMAIN entries \/ Len(entries[chartName]) = 0
             THEN Failure("index")
             ELSE Result(TRUE, "index", <<>>, entries[chartName][1].Version)

\* loadChartFromOCI (lines 361-384): pulled is FALSE when the pull, the
\* archive or its format is rejected; the loaded chart is reported by the
\* reference it was pulled from
loadChartFromOCI(repoURL, chartName, version, pulled) ==
    IF pulled
    THEN Result(TRUE, "registry", <<>>, parseOCIReference(repoURL, chartName, version))
    ELSE Failure("registry")

\* loadChartFromHTTP (lines 386-462): the chart version is looked up in the
\* index, must carry a download URL, and is then fetched; fetched is FALSE
\* when download or loading fails.  The loaded chart is reported by its URL.
loadChartFromHTTP(r, chartName, version, fetched) ==
    IF r.err # "" THEN Failure("index")
    ELSE LET entries == r.repo.IndexFile
             found == IF chartName \in DOMAIN entries
                      THEN {i \in 1..Len(entries[chartName]) :
                                entries[chartName][i].Version = version}
                      ELSE {}
         IN  IF found = {} THEN Failure("index")
             ELSE LET cv == entries[chartName][CHOOSE i \in found : \A j \in found : i <= j]
                  IN  IF Len(cv.URLs) = 0 THEN Failure("index")
                      ELSE IF ~fetched THEN Failure("index")
                      ELSE Result(TRUE, "index", <<>>, cv.URLs[1])

----------------------------------------------------------------------------
(* helm_client: the concurrent callers of one HelmClient *)

NoOne == 0
Callers == 1..NumCallers

OpKinds == {"ListCharts", "ListChartVersions", "GetChartLatestVersion", "loadChart"}
\* an operation in progress: its arguments, the number of the call, and what
\* the registry answered when it was asked for tags
NotAsked == [err |-> FALSE, tags |-> <<>>]
Operation(kind, repoURL, chart, version, call, tags) ==
    [kind |-> kind, repoURL |-> repoURL, chart |-> chart, version |-> version,
     call |-> call, tags |-> tags]
NoOperation == Operation("none", <<>>, <<>>, <<>>, 0, NotAsked)

\* a caller is between Lock and Unlock of getRepo
InGetRepo(p) == pc[p] \in {"check", "new", "download", "load"}

ClientInit ==
    /\ reposMu = NoOne
    /\ reposAllocated = FALSE
    /\ repos = NoEntries
    /\ pc = [p \in Callers |-> "idle"]
    /\ op = [p \in Callers |-> NoOperation]
    /\ requestedRepo = [p \in Callers |-> NoRepo]
    /\ indexFileLocation = [p \in Callers |-> NoEntries]
    /\ helmRepo = [p \in Callers |-> GetRepoResult("", NoRepo)]
    /\ result = [p \in Callers |-> NoResult]
    /\ calls = 0
    /\ populated = NoEntries
    /\ reposAtLock = [p \in Callers |-> NoEntries]

\* an entry that sends every locator to getRepo and the cached index
Enter_AlwaysThroughCache(p, kind, repoURL, chart, version, tags, ociResult) ==
    /\ pc[p] = "idle"
    /\ calls < MaxCalls
    /\ calls' = calls + 1
    /\ op' = [op EXCEPT ![p] =
                    Operation(kind, repoURL, chart, version, calls + 1, NotAsked)]
    /\ pc' = [pc EXCEPT ![p] = "lock"]
    /\ UNCHANGED <<reposMu, reposAllocated, repos, requestedRepo, indexFileLocation,
                   helmRepo, populated, reposAtLock, result>>
    /\ UNCHANGED imageVars

\* A client operation is entered: the locator is routed; the OCI branch runs
\* to its return, the other branch goes on to call getRepo(repoURL, repoURL).
Enter(p, kind, repoURL, chart, version, tags, ociResult) ==
    /\ pc[p] = "idle"
    /\ IF IsOCI(repoURL)
       THEN /\ op' = [op EXCEPT ![p] = Operation(kind, repoURL, chart, version, 0, tags)]
            /\ result' = [result EXCEPT ![p] = ociResult]
            /\ pc' = [pc EXCEPT ![p] = "done"]
            /\ UNCHANGED calls
       ELSE /\ calls < MaxCalls
            /\ calls' = calls + 1
            /\ op' = [op EXCEPT ![p] =
                            Operation(kind, repoURL, chart, version, calls + 1, NotAsked)]
            /\ pc' = [pc EXCEPT ![p] = "lock"]
            /\ UNCHANGED result
    /\ UNCHANGED <<reposMu, reposAllocated, repos, requestedRepo, indexFileLocation,
                   helmRepo, populated, reposAtLock>>
    /\ UNCHANGED imageVars

\* getRepo has returned to the operation, which computes its result from it
Resume(p, kind, httpResult) ==
    /\ pc[p] = "got"
    /\ op[p].kind = kind
    /\ result' = [result EXCEPT ![p] = httpResult]
    /\ pc' = [pc EXCEPT ![p] = "done"]
    /\ UNCHANGED <<reposMu, reposAllocated, repos, op, requestedRepo, indexFileLocation,
                   helmRepo, calls, populated, reposAtLock>>
    /\ UNCHANGED imageVars

ListCharts(p) ==
    \/ \E repoURL \in Locators :
          Enter(p, "ListCharts", repoURL, <<>>, <<>>, NotAsked, ListCharts_OCI(repoURL))
    \/ Resume(p, "ListCharts", ListCharts_HTTP(helmRepo[p]))

ListChartVersions(p) ==
    \/ \E repoURL \in Locators, chart \in ChartNames, tags \in TagsResults :
          Enter(p, "ListChartVersions", repoURL, chart, <<>>, tags,
                ListChartVersions_OCI(repoURL, chart, tags))
    \/ Resume(p, "ListChartVersions", ListChartVersions_HTTP(helmRepo[p], op[p].chart))

GetChartLatestVersion(p) ==
    \/ \E repoURL \in Locators, chartName \in ChartNames, tags \in TagsResults :
          Enter(p, "GetChartLatestVersion", repoURL, chartName, <<>>, tags,
                GetChartLatestVersion_OCI(repoURL, chartName, tags))
    \/ Resume(p, "GetChartLatestVersion", GetChartLatestVersion_HTTP(helmRepo[p], op[p].chart))

loadChart(p) ==
    \/ \E repoURL \in Locators, chartName \in ChartNames, version \in {<<>>, V9},
          pulled \in BOOLEAN :
          Enter(p, "loadChart", repoURL, chartName, version, NotAsked,
                loadChartFromOCI(repoURL, chartName, version, pulled))
    \/ \E fetched \in BOOLEAN :
          Resume(p, "loadChart",
                 loadChartFromHTTP(helmRepo[p], op[p].chart, op[p].version, fetched))

\* the operation's result is handed to its caller
Return(p) ==
    /\ pc[p] = "done"
    /\ pc' = [pc EXCEPT ![p] = "idle"]
    /\ op' = [op EXCEPT ![p] = NoOperation]
    /\ result' = [result EXCEPT ![p] = NoResult]
    /\ helmRepo' = [helmRepo EXCEPT ![p] = GetRepoResult("", NoRepo)]
    /\ UNCHANGED <<reposMu, reposAllocated, repos, requestedRepo, indexFileLocation,
                   calls, populated, reposAtLock>>
    /\ UNCHANGED imageVars

\* ---- getRepo(name, url), line by line; every caller passes name = url ----

\* Lock that does not wait for the holder
Lock_NoWait(p) ==
    /\ pc[p] = "lock"
    /\ reposMu' = p
    /\ reposAtLock' = [reposAtLock EXCEPT ![p] = repos]
    /\ pc' = [pc EXCEPT ![p] = "check"]
    /\ UNCHANGED <<reposAllocated, repos, op, requestedRepo, indexFileLocation,
                   helmRepo, result, calls, populated>>
    /\ UNCHANGED imageVars

\* c.reposMu.Lock()
Lock(p) ==
    /\ pc[p] = "lock"
    /\ reposMu = NoOne
    /\ reposMu' = p
    /\ reposAtLock' = [reposAtLock EXCEPT ![p] = repos]
    /\ pc' = [pc EXCEPT ![p] = "check"]
    /\ UNCHANGED <<reposAllocated, repos, op, requestedRepo, indexFileLocation,
                   helmRepo, result, calls, populated>>
    /\ UNCHANGED imageVars

\* a return that leaves the lock held when getRepo returns an error
ReturnFromGetRepo_HeldOnError(p, r) ==
    /\ helmRepo' = [helmRepo EXCEPT ![p] = r]
    /\ reposMu' = IF r.err = "" THEN NoOne ELSE reposMu
    /\ requestedRepo' = [requestedRepo EXCEPT ![p] = NoRepo]
    /\ indexFileLocation' = [indexFileLocation EXCEPT ![p] = NoEntries]
    /\ pc' = [pc EXCEPT ![p] = "got"]

\* getRepo returns r; the deferred Unlock runs
ReturnFromGetRepo(p, r) ==
    /\ helmRepo' = [helmRepo EXCEPT ![p] = r]
    /\ reposMu' = NoOne
    /\ requestedRepo' = [requestedRepo EXCEPT ![p] = NoRepo]
    /\ indexFileLocation' = [indexFileLocation EXCEPT ![p] = NoEntries]
    /\ pc' = [pc EXCEPT ![p] = "got"]

\* CheckCache that never finds the entry, so every call refreshes the index
CheckCache_AlwaysRefresh(p) ==
    /\ pc[p] = "check"
    /\ reposAllocated' = TRUE
    /\ pc' = [pc EXCEPT ![p] = "new"]
    /\ UNCHANGED <<reposMu, requestedRepo, indexFileLocation, helmRepo>>
    /\ UNCHANGED <<repos, op, result, calls, populated, reposAtLock>>
    /\ UNCHANGED imageVars

\* lines 206-213: the map is allocated on first use; a cached entry is returned
CheckCache(p) ==
    /\ pc[p] = "check"
    /\ reposAllocated' = TRUE
    /\ IF op[p].repoURL \in DOMAIN repos
       THEN ReturnFromGetRepo(p, GetRepoResult("", repos[op[p].repoURL]))
       ELSE /\ pc' = [pc EXCEPT ![p] = "new"]
            /\ UNCHANGED <<reposMu, requestedRepo, indexFileLocation, helmRepo>>
    /\ UNCHANGED <<repos, op, result, calls, populated, reposAtLock>>
    /\ UNCHANGED imageVars

\* lines 215-234: the entry is built and repo.NewChartRepository called
NewChartRepository(p) ==
    /\ pc[p] = "new"
    /\ \/ /\ requestedRepo' = [requestedRepo EXCEPT ![p] =
                [id |-> op[p].call,
                 Config |-> [Name |-> op[p].repoURL, URL |-> op[p].repoURL],
                 IndexFile |-> NoEntries]]
          /\ pc' = [pc EXCEPT ![p] = "download"]
          /\ UNCHANGED <<reposMu, indexFileLocation, helmRepo>>
       \/ ReturnFromGetRepo(p, GetRepoResult("failed to create chart repository", NoRepo))
    /\ UNCHANGED <<reposAllocated, repos, op, result, calls, populated, reposAtLock>>
    /\ UNCHANGED imageVars

\* lines 236-239: requestedRepo.DownloadIndexFile()
DownloadIndexFile(p) ==
    /\ pc[p] = "download"
    /\ \/ \E file \in IndexFiles :
             /\ indexFileLocation' = [indexFileLocation EXCEPT ![p] = file]
             /\ pc' = [pc EXCEPT ![p] = "load"]
             /\ UNCHANGED <<reposMu, requestedRepo, helmRepo>>
       \/ ReturnFromGetRepo(p, GetRepoResult("failed to download repository index", NoRepo))
    /\ UNCHANGED <<reposAllocated, repos, op, result, calls, populated, reposAtLock>>
    /\ UNCHANGED imageVars

\* LoadIndexFile that inserts the repository before the file is parsed
LoadIndexFile_InsertsFirst(p) ==
    /\ pc[p] = "load"
    /\ \/ LET loaded == [requestedRepo[p] EXCEPT
                            !.IndexFile = SortEntries(indexFileLocation[p])]
              name == op[p].repoURL
          IN  /\ repos' = (name :> loaded) @@ repos
              /\ populated' = (name :> (IF name \in DOMAIN populated
                                        THEN populated[name] + 1 ELSE 1)) @@ populated
              /\ ReturnFromGetRepo(p, GetRepoResult("", loaded))
       \/ /\ repos' = (op[p].repoURL :> requestedRepo[p]) @@ repos
          /\ ReturnFromGetRepo(p, GetRepoResult("failed to load index file", NoRepo))
          /\ UNCHANGED populated
    /\ UNCHANGED <<reposAllocated, op, result, calls, reposAtLock>>
    /\ UNCHANGED imageVars

\* lines 241-249: repo.LoadIndexFile, SortEntries, insertion into the map
LoadIndexFile(p) ==
    /\ pc[p] = "load"
    /\ \/ LET loaded == [requestedRepo[p] EXCEPT
                            !.IndexFile = SortEntries(indexFileLocation[p])]
              name == op[p].repoURL
          IN  /\ repos' = (name :> loaded) @@ repos
              /\ populated' = (name :> (IF name \in DOMAIN populated
                                        THEN populated[name] + 1 ELSE 1)) @@ populated
              /\ ReturnFromGetRepo(p, GetRepoResult("", loaded))
       \/ /\ ReturnFromGetRepo(p, GetRepoResult("failed to load index file", NoRepo))
          /\ UNCHANGED <<repos, populated>>
    /\ UNCHANGED <<reposAllocated, op, result, calls, reposAtLock>>
    /\ UNCHANGED imageVars

\* nothing has been handed to the extractor
ExtractIdle ==
    /\ manifests = <<>>
    /\ extracted = <<>>
    /\ extractDone = FALSE

\* nothing has been handed to deduplicateImages
DedupeIdle ==
    /\ images = <<>>
    /\ deduped = <<>>
    /\ dedupeDone = FALSE

\* a chart without templates, dependency declarations or subcharts
NoChart == [deps |-> <<>>]

\* no chart has been handed to GetChartImages
ChartImagesIdle ==
    /\ rootChart = NoChart
    /\ recursive = FALSE
    /\ chartImages = ImageList(FALSE, <<>>)
    /\ chartDone = FALSE

\* no chart has been handed to GetChartDependencies
WalkIdle ==
    /\ walkedChart = NoChart
    /\ dependencies = <<>>
    /\ walkDone = FALSE

\* no tool call has been received
ToolIdle ==
    /\ toolRequest = <<>>
    /\ toolParams = <<>>
    /\ toolDone = FALSE

\* no OCI reference has been asked for
OCIIdle ==
    /\ ociArgs = <<>>
    /\ ociRef = <<>>
    /\ ociDone = FALSE

\* no object has been handed to extractFromPodSpec
PodIdle ==
    /\ podObj = <<>>
    /\ podImages = <<>>
    /\ podDone = FALSE

ImageIdle ==
    /\ image = <<>>
    /\ parsed = FALSE
    /\ ref = ImageReference
    /\ ExtractIdle
    /\ DedupeIdle
    /\ ChartImagesIdle
    /\ WalkIdle
    /\ ToolIdle
    /\ OCIIdle
    /\ PodIdle

----------------------------------------------------------------------------
(* Specification of the client: one caller runs the client's operations,   *)
(* one after the other, on any locator                                     *)

\* the one caller of this specification
Main == CHOOSE p \in Callers : \A q \in Callers : p <= q

NextClient ==
    \/ ListCharts(Main)
    \/ ListChartVersions(Main)
    \/ GetChartLatestVersion(Main)
    \/ loadChart(Main)
    \/ Return(Main)
    \/ Lock(Main)
    \/ CheckCache(Main)
    \/ NewChartRepository(Main)
    \/ DownloadIndexFile(Main)
    \/ LoadIndexFile(Main)

InitClient == ClientInit /\ ImageIdle

SpecClient == InitClient /\ [][NextClient]_vars

----------------------------------------------------------------------------
(* Specification of the cache: concurrent callers inside getRepo, as the   *)
(* protocol layer serves tool calls in parallel                            *)

\* names the concurrent callers ask for
RepoNames == {<<>>, <<"h">>}

\* some operation of the client calls getRepo(name, name)
getRepo(p) ==
    \E name \in RepoNames :
        /\ pc[p] = "idle"
        /\ calls < MaxCalls
        /\ calls' = calls + 1
        /\ op' = [op EXCEPT ![p] = Operation("getRepo", name, <<>>, <<>>, calls + 1, NotAsked)]
        /\ pc' = [pc EXCEPT ![p] = "lock"]
        /\ UNCHANGED <<reposMu, reposAllocated, repos, requestedRepo, indexFileLocation,
                       helmRepo, result, populated, reposAtLock>>
        /\ UNCHANGED imageVars

\* the calling operation has taken getRepo's result and finished
getRepoDone(p) ==
    /\ pc[p] = "got"
    /\ op[p].kind = "getRepo"
    /\ pc' = [pc EXCEPT ![p] = "idle"]
    /\ op' = [op EXCEPT ![p] = NoOperation]
    /\ helmRepo' = [helmRepo EXCEPT ![p] = GetRepoResult("", NoRepo)]
    /\ UNCHANGED <<reposMu, reposAllocated, repos, requestedRepo, indexFileLocation,
                   result, calls, populated, reposAtLock>>
    /\ UNCHANGED imageVars

NextCache ==
    \E p \in Callers :
        \/ getRepo(p)
        \/ Lock(p)
        \/ CheckCache(p)
        \/ NewChartRepository(p)
        \/ DownloadIndexFile(p)
        \/ LoadIndexFile(p)
        \/ getRepoDone(p)

SpecCache == InitClient /\ [][NextCache]_vars

\* The cache under contention: every caller asks for the same repository
NextCacheFair ==
    \E p \in Callers :
        \/ getRepo(p) /\ op'[p].repoURL = <<"h">>
        \/ Lock(p)
        \/ CheckCache(p)
        \/ NewChartRepository(p)
        \/ DownloadIndexFile(p)
        \/ LoadIndexFile(p)
        \/ getRepoDone(p)

\* The contended cache under the scheduling the Go runtime gives: a goroutine
\* inside getRepo keeps running, every call into the helm library returns,
\* and sync.Mutex hands the lock to a waiter that keeps being passed over
\* (starvation mode), so no waiter is passed over forever
SpecCacheFair ==
    /\ InitClient
    /\ [][NextCacheFair]_vars
    /\ \A p \in Callers :
          /\ SF_vars(Lock(p))
          /\ WF_vars(CheckCache(p))
          /\ WF_vars(NewChartRepository(p))
          /\ WF_vars(DownloadIndexFile(p))
          /\ WF_vars(LoadIndexFile(p))

----------------------------------------------------------------------------
(* Specification of the normalizer: any image string, then parseImage *)

\* images of the form host:port/path, with and without tag and digest
PortImages ==
    {host \o <<":", "a", "/">> \o path \o tag \o digest :
        host \in {<<"a">>, <<"a", ".", "a">>}, path \in {<<"a">>, <<"a", "/", "a">>},
        tag \in {<<>>, <<":", "a">>}, digest \in {<<>>, <<"@", "a">>}}

Images == StringsUpTo(ImageChars, MaxLen) \cup PortImages

InitImage ==
    /\ image \in Images
    /\ parsed = FALSE
    /\ ref = ImageReference
    /\ ExtractIdle
    /\ DedupeIdle
    /\ ChartImagesIdle
    /\ WalkIdle
    /\ ToolIdle
    /\ OCIIdle
    /\ PodIdle
    /\ ClientInit

ParseImage ==
    /\ ~parsed
    /\ ref' = parseImage(image)
    /\ parsed' = TRUE
    /\ UNCHANGED <<image>>
    /\ UNCHANGED parserVars
    /\ UNCHANGED clientVars

NextImage == ParseImage

SpecImage == InitImage /\ [][NextImage]_vars

----------------------------------------------------------------------------
(* Specification: the manifest extractor over rendered manifests *)

\* a mapping with the keys whose value is nil left out
Present(f) == [k \in {x \in DOMAIN f : f[x].t # "nil"} |-> f[k]]

\* a "spec:" block holding a pod spec at each of the places in at, each
\* with its own image
SpecTree(at) ==
    IMap(Present(
        [containers  |-> IF "pod" \in at
                         THEN List(<<IMap([image |-> Str(<<"a">>)])>>) ELSE Nil,
         template    |-> IF "template" \in at
                         THEN IMap([spec |-> IMap([containers |->
                                  List(<<IMap([image |-> Str(<<"a", ":", "a">>)])>>)])])
                         ELSE Nil,
         jobTemplate |-> IF "jobTemplate" \in at
                         THEN IMap([spec |-> IMap([template |-> IMap([spec |->
                                  IMap([initContainers |->
                                  List(<<IMap([image |-> Str(<<"a", "/", "a">>)])>>)])])])])
                         ELSE Nil]))

\* documents of every kind over every placement of pod specs; "kind:" is
\* each name of Kind, absent or not a string, "metadata:" is absent, a
\* mapping with or without a string name, or not a mapping
DispatchDocs ==
    LET KindNodes     == {Str(Kind[k]) : k \in DOMAIN Kind}
                            \cup {Nil, Node("int", <<>>)}
        MetadataNodes == {Nil,
                          IMap([name |-> Str(<<"n">>)]),
                          IMap([name |-> Node("int", <<>>)]),
                          IMap([labels |-> Str(<<"n">>)]),
                          Str(<<"n">>)}
    IN  {Doc(SMap(Present([kind |-> k, metadata |-> m, spec |-> SpecTree(at)]))) :
            k \in KindNodes, m \in MetadataNodes,
            at \in SUBSET {"pod", "template", "jobTemplate"}}

\* the entries of a "containers:" list
ContainerEntries == {IMap([image |-> Str(<<"a">>)]),
                     IMap([image |-> Str(<<"a", "@", "a">>)]),
                     IMap([image |-> Str(<<>>)]),
                     IMap([image |-> Node("int", <<>>)]),
                     IMap([name |-> Str(<<"n">>)]),
                     Str(<<"a">>)}

\* Pods over every container list of up to MaxContainers entries and a few
\* init container lists
ContainerDocs ==
    LET ContainerLists == UNION {[1..n -> ContainerEntries] : n \in 0..MaxContainers}
    IN
    {Doc(SMap([kind     |-> Str(Kind.Pod),
               metadata |-> IMap([name |-> Str(<<"n">>)]),
               spec     |-> IMap(Present([containers |-> cs, initContainers |-> is]))])) :
        cs \in {List(l) : l \in ContainerLists} \cup {Nil, Str(<<"a">>)},
        is \in {List(<<e>>) : e \in ContainerEntries} \cup {Nil}}

\* the fragments rendered templates are made of
Fragments ==
    {Blank, Malformed,
     Doc(SMap([kind |-> Str(Kind.ConfigMap)])),
     Doc(SMap([kind |-> Str(Kind.Pod),
               spec |-> SpecTree({"pod"})])),
     Doc(SMap([kind     |-> Str(Kind.Deployment),
               metadata |-> IMap([name |-> Str(<<"n">>)]),
               spec     |-> SpecTree({"template"})]))}

\* rendered charts: up to MaxManifests manifests of up to two fragments each
Batches ==
    LET Manifest == UNION {[1..n -> Fragments] : n \in 0..2}
    IN  UNION {[1..n -> Manifest] : n \in 0..MaxManifests}

InitExtract ==
    /\ manifests \in {<<<<d>>>> : d \in DispatchDocs \cup ContainerDocs} \cup Batches
    /\ extracted = <<>>
    /\ extractDone = FALSE
    /\ DedupeIdle
    /\ ChartImagesIdle
    /\ WalkIdle
    /\ ToolIdle
    /\ OCIIdle
    /\ PodIdle
    /\ image = <<>>
    /\ parsed = FALSE
    /\ ref = ImageReference
    /\ ClientInit

\* one call of extractImagesFromManifests
Extract ==
    /\ ~extractDone
    /\ extracted' = extractImagesFromManifests(manifests)
    /\ extractDone' = TRUE
    /\ UNCHANGED <<manifests, image, parsed, ref>>
    /\ UNCHANGED <<dedupeVars, chartImagesVars, walkVars>>
    /\ UNCHANGED <<toolVars, ociVars, podVars>>
    /\ UNCHANGED clientVars

NextExtract == Extract

SpecExtract == InitExtract /\ [][NextExtract]_vars

----------------------------------------------------------------------------
(* Specification: deduplicateImages over lists of extracted references *)

\* source labels as extraction builds them: a kind, kind/name, and the
\* init container form
SourceLabels == {Kind.Pod,
                 Kind.Pod \o <<"/", "n">>,
                 Kind.Pod \o <<"/", "n">> \o <<" ", "(", "i", "n", "i", "t", ")">>,
                 Kind.Job \o <<"/", "n">>}

\* references to two images, from each source
References ==
    {[parseImage(i) EXCEPT !.Source = l] :
        i \in {<<"a">>, <<"a", ":", "a">>}, l \in SourceLabels}

InitDedupe ==
    /\ images \in UNION {[1..n -> References] : n \in 0..MaxImages}
    /\ deduped = <<>>
    /\ dedupeDone = FALSE
    /\ ExtractIdle
    /\ ChartImagesIdle
    /\ WalkIdle
    /\ ToolIdle
    /\ OCIIdle
    /\ PodIdle
    /\ image = <<>>
    /\ parsed = FALSE
    /\ ref = ImageReference
    /\ ClientInit

\* one call of deduplicateImages
Dedupe ==
    /\ ~dedupeDone
    /\ deduped' \in deduplicateImages(images)
    /\ dedupeDone' = TRUE
    /\ UNCHANGED <<images, image, parsed, ref>>
    /\ UNCHANGED <<extractVars, chartImagesVars, walkVars>>
    /\ UNCHANGED <<toolVars, ociVars, podVars>>
    /\ UNCHANGED clientVars

NextDedupe == Dedupe

SpecDedupe == InitDedupe /\ [][NextDedupe]_vars

----------------------------------------------------------------------------
(* Specification: GetChartImages over charts with subcharts *)

\* what the templates of one chart render to
Renderings ==
    LET Workload(kind, meta, at) ==
            Doc(SMap(Present([kind     |-> Str(kind),
                              metadata |-> meta,
                              spec     |-> SpecTree(at)])))
        Pod      == Workload(Kind.Pod, Nil, {"pod"})
        PodN     == Workload(Kind.Pod, IMap([name |-> Str(<<"n">>)]), {"pod"})
        Deploy   == Workload(Kind.Deployment, IMap([name |-> Str(<<"n">>)]),
                             {"template"})
        CronJob  == Workload(Kind.CronJob, Nil, {"jobTemplate"})
    IN  {{},
         {<<Pod>>, <<Deploy>>},
         {<<CronJob, Malformed>>, <<PodN>>},
         {<<PodN, Deploy>>}}

\* charts: without subcharts, with one subchart, and with up to
\* MaxSubcharts subcharts of either form; any of them may fail to render
Charts ==
    LET Leaves == {[renders |-> TRUE, rendered |-> r, deps |-> <<>>] :
                      r \in Renderings}
                  \cup {[renders |-> FALSE, rendered |-> {}, deps |-> <<>>]}
        Inner  == Leaves \cup
                  {[renders |-> TRUE, rendered |-> {}, deps |-> <<l>>] : l \in Leaves}
    IN  {[renders |-> l.renders, rendered |-> l.rendered, deps |-> ds] :
            l \in Leaves,
            ds \in UNION {[1..n -> Inner] : n \in 0..MaxSubcharts}}

InitChartImages ==
    /\ rootChart \in Charts
    /\ recursive \in BOOLEAN
    /\ chartImages = ImageList(FALSE, <<>>)
    /\ chartDone = FALSE
    /\ ExtractIdle
    /\ DedupeIdle
    /\ WalkIdle
    /\ ToolIdle
    /\ OCIIdle
    /\ PodIdle
    /\ image = <<>>
    /\ parsed = FALSE
    /\ ref = ImageReference
    /\ ClientInit

\* one call of GetChartImages
GetImages ==
    /\ ~chartDone
    /\ chartImages' \in GetChartImages(rootChart, recursive)
    /\ chartDone' = TRUE
    /\ UNCHANGED <<rootChart, recursive, image, parsed, ref>>
    /\ UNCHANGED <<extractVars, dedupeVars, walkVars>>
    /\ UNCHANGED <<toolVars, ociVars, podVars>>
    /\ UNCHANGED clientVars

NextChartImages == GetImages

SpecChartImages == InitChartImages /\ [][NextChartImages]_vars

----------------------------------------------------------------------------
(* Specification: GetChartDependencies over charts with subcharts *)

\* the Chart.yaml of a chart: no such raw file, a file without content, one
\* the decoder rejects, or one declaring the given items
ChartYAML(file, declared) == [file |-> file, dependencies |-> declared]

\* charts with up to MaxDeclared declared items, complete and incomplete,
\* and up to MaxSubcharts loaded subcharts, one of them with a subchart of
\* its own
WalkedCharts ==
    LET X1  == dependencyItem(<<"x">>, <<"1">>, <<"r">>)
        X2  == dependencyItem(<<"x">>, <<"2">>, <<"r">>)
        Y1  == dependencyItem(<<"y">>, <<"1">>, <<"r">>)
        Items == {X1, X2, Y1,
                  dependencyItem(<<>>, <<"1">>, <<"r">>),
                  dependencyItem(<<"y">>, <<>>, <<"r">>),
                  dependencyItem(<<"y">>, <<"1">>, <<>>)}
        Sub(name, version, yaml, deps) ==
            [name |-> name, version |-> version, chartYAML |-> yaml, deps |-> deps]
        SubY == Sub(<<"y">>, <<"1">>, ChartYAML("yaml", <<X2>>), <<>>)
        Subs == {SubY,
                 Sub(<<"x">>, <<"1">>, ChartYAML("yaml", <<>>), <<>>),
                 Sub(<<"x">>, <<"1">>, ChartYAML("yaml", <<Y1>>), <<SubY>>),
                 Sub(<<"x">>, <<"2">>, ChartYAML("yaml", <<Y1>>), <<>>),
                 Sub(<<"y">>, <<"1">>,
                     ChartYAML("yaml", <<dependencyItem(<<"x">>, <<>>, <<"r">>)>>), <<>>),
                 Sub(<<"y">>, <<"1">>, ChartYAML("absent", <<>>), <<>>)}
        Files == {ChartYAML("absent", <<>>), ChartYAML("empty", <<>>),
                  ChartYAML("malformed", <<>>)}
                 \cup {ChartYAML("yaml", l) :
                          l \in UNION {[1..n -> Items] : n \in 0..MaxDeclared}}
    IN  {Sub(<<"c">>, <<"1">>, f, ds) :
            f \in Files, ds \in UNION {[1..n -> Subs] : n \in 0..MaxSubcharts}}

InitWalk ==
    /\ walkedChart \in WalkedCharts
    /\ dependencies = <<>>
    /\ walkDone = FALSE
    /\ ExtractIdle
    /\ DedupeIdle
    /\ ChartImagesIdle
    /\ ToolIdle
    /\ OCIIdle
    /\ PodIdle
    /\ image = <<>>
    /\ parsed = FALSE
    /\ ref = ImageReference
    /\ ClientInit

\* one call of GetChartDependencies
WalkDependencies ==
    /\ ~walkDone
    /\ dependencies' = GetChartDependencies(walkedChart)
    /\ walkDone' = TRUE
    /\ UNCHANGED <<walkedChart, image, parsed, ref>>
    /\ UNCHANGED <<extractVars, dedupeVars, chartImagesVars>>
    /\ UNCHANGED <<toolVars, ociVars, podVars>>
    /\ UNCHANGED clientVars

NextWalk == WalkDependencies

SpecWalk == InitWalk /\ [][NextWalk]_vars

----------------------------------------------------------------------------
(* Specification: the common parameter extraction of the tool layer *)

\* strings.TrimSpace
TrimSpace(s) ==
    LET inked == {i \in 1..Len(s) : s[i] \notin {" ", "\t", "\n"}}
    IN  IF inked = {} THEN <<>>
        ELSE SubSeq(s, CHOOSE i \in inked : \A j \in inked : i <= j,
                       CHOOSE i \in inked : \A j \in inked : j <= i)

\* what ExtractCommonParams returns: the parameters or an error result, and
\* the number of calls it made to GetChartLatestVersion
CommonParams(url, name, version, errResult, lookups) ==
    [RepositoryURL |-> url, ChartName |-> name, ChartVersion |-> version,
     errResult |-> errResult, lookups |-> lookups]

\* a parameter extraction that lets an HTTP repository pass without chart
ExtractCommonParams_NameOptional(args, resolveLatestVersion, latest) ==
    IF "repository_url" \notin DOMAIN args
    THEN CommonParams(<<>>, <<>>, <<>>, "repository_url", 0)
    ELSE LET repositoryURL == TrimSpace(args.repository_url)
             given        == IF "chart_name" \in DOMAIN args
                             THEN TrimSpace(args.chart_name) ELSE <<>>
             chartName    == IF IsOCI(repositoryURL) /\ given = <<>>
                             THEN ExtractChartNameFromOCI(repositoryURL) ELSE given
             chartVersion == IF "chart_version" \in DOMAIN args
                             THEN args.chart_version ELSE <<>>
         IN  IF chartVersion = <<>> /\ resolveLatestVersion
             THEN IF latest.ok
                  THEN CommonParams(repositoryURL, chartName, latest.str, "", 1)
                  ELSE CommonParams(<<>>, <<>>, <<>>, "latest", 1)
             ELSE CommonParams(repositoryURL, chartName, chartVersion, "", 0)

\* ExtractCommonParams (lines 65-103); latest is what GetChartLatestVersion
\* answers if it is called
ExtractCommonParams(args, resolveLatestVersion, latest) ==
    IF "repository_url" \notin DOMAIN args
    THEN CommonParams(<<>>, <<>>, <<>>, "repository_url", 0)
    ELSE LET repositoryURL == TrimSpace(args.repository_url)
             given        == IF "chart_name" \in DOMAIN args
                             THEN TrimSpace(args.chart_name) ELSE <<>>
             chartName    == IF IsOCI(repositoryURL) /\ given = <<>>
                             THEN ExtractChartNameFromOCI(repositoryURL) ELSE given
             chartVersion == IF "chart_version" \in DOMAIN args
                             THEN args.chart_version ELSE <<>>
         IN  IF chartName = <<>>
             THEN CommonParams(<<>>, <<>>, <<>>,
                               IF IsOCI(repositoryURL) THEN "chart_name: oci"
                               ELSE "chart_name: http", 0)
             ELSE IF chartVersion = <<>> /\ resolveLatestVersion
             THEN IF latest.ok
                  THEN CommonParams(repositoryURL, chartName, latest.str, "", 1)
                  ELSE CommonParams(<<>>, <<>>, <<>>, "latest", 1)
             ELSE CommonParams(repositoryURL, chartName, chartVersion, "", 0)

\* tool calls: each argument missing, empty, blank, padded or plain, on
\* plain and on oci:// repository URLs
ToolRequests ==
    LET URLs  == {<<"h">>, <<" ", "h", "\n">>,
                  OCIScheme, OCIScheme \o <<"r", "/">>, OCIScheme \o <<"r", "/", "c">>,
                  <<" ">> \o OCIScheme \o <<"r", "/", "c", ":", "9">>, <<>>}
        Names == {<<>>, <<" ">>, <<"\t", " ">>, ChartC, <<" ">> \o ChartD \o <<" ">>}
        Given == [repository_url : URLs, chart_name : Names, chart_version : {<<>>, V9}]
    IN  {[args |-> [k \in keys |-> a[k]], resolveLatestVersion |-> r] :
            a \in Given, r \in BOOLEAN,
            keys \in SUBSET {"repository_url", "chart_name", "chart_version"}}

InitTool ==
    /\ toolRequest \in ToolRequests
    /\ toolParams = <<>>
    /\ toolDone = FALSE
    /\ ExtractIdle
    /\ DedupeIdle
    /\ ChartImagesIdle
    /\ WalkIdle
    /\ OCIIdle
    /\ PodIdle
    /\ image = <<>>
    /\ parsed = FALSE
    /\ ref = ImageReference
    /\ ClientInit

\* one call of ExtractCommonParams by a tool handler
ExtractParams ==
    /\ ~toolDone
    /\ \E latest \in {Failure("registry"), Result(TRUE, "registry", <<>>, V9)} :
          toolParams' = ExtractCommonParams(toolRequest.args,
                                            toolRequest.resolveLatestVersion, latest)
    /\ toolDone' = TRUE
    /\ UNCHANGED <<toolRequest, image, parsed, ref>>
    /\ UNCHANGED <<extractVars, dedupeVars, chartImagesVars, walkVars, ociVars, podVars>>
    /\ UNCHANGED clientVars

NextTool == ExtractParams

SpecTool == InitTool /\ [][NextTool]_vars

----------------------------------------------------------------------------
(* Specification: OCI references built from a locator, a chart name and a  *)
(* version                                                                 *)

\* oci:// locators with and without port, path, trailing "/" and tag, and
\* the chart names and versions the client is called with
OCIArguments ==
    {[repoURL   |-> OCIScheme \o host \o path \o tag,
      chartName |-> name,
      version   |-> version] :
        host    \in {<<"r">>, <<"r", ":", "5">>},
        path    \in {<<>>, <<"/", "c">>, <<"/", "o", "/", "c">>, <<"/", "c", "/">>},
        tag     \in {<<>>, <<":", "9">>},
        name    \in {<<>>, ChartC, ChartD},
        version \in {<<>>, V2}}

InitOCI ==
    /\ ociArgs \in OCIArguments
    /\ ociRef = <<>>
    /\ ociDone = FALSE
    /\ ExtractIdle
    /\ DedupeIdle
    /\ ChartImagesIdle
    /\ WalkIdle
    /\ ToolIdle
    /\ PodIdle
    /\ image = <<>>
    /\ parsed = FALSE
    /\ ref = ImageReference
    /\ ClientInit

\* the client computes the reference to pull and the chart name of the URL
BuildReference ==
    /\ ~ociDone
    /\ ociRef' = [ref  |-> parseOCIReference(ociArgs.repoURL, ociArgs.chartName,
                                             ociArgs.version),
                  name |-> ExtractChartNameFromOCI(ociArgs.repoURL)]
    /\ ociDone' = TRUE
    /\ UNCHANGED <<ociArgs, image, parsed, ref>>
    /\ UNCHANGED <<extractVars, dedupeVars, chartImagesVars, walkVars, toolVars, podVars>>
    /\ UNCHANGED clientVars

NextOCI == BuildReference

SpecOCI == InitOCI /\ [][NextOCI]_vars

----------------------------------------------------------------------------
(* Specification: extractFromPodSpec called on a decoded object, as        *)
(* TestExtractFromPodSpec calls it                                         *)

\* the two generic-map representations
MapKinds == {"map[string]interface{}", "map[interface{}]interface{}"}

\* what stands where a pod spec is expected: a map of either representation
\* whose container entries are maps of either representation, or a value of
\* another shape
PodSpecs ==
    {Node(k, [containers     |-> List(<<Node(c, [image |-> Str(<<"a">>)])>>),
              initContainers |-> List(<<Node(i, [image |-> Str(<<"a", ":", "a">>)])>>)]) :
        k \in MapKinds, c \in MapKinds, i \in MapKinds}
    \cup {Node(k, [containers |-> Str(<<"a">>)]) : k \in MapKinds}
    \cup {Nil, Str(<<"a">>), List(<<>>)}

\* calls of extractFromPodSpec: the pod spec directly under "spec" or under
\* "spec", "template", "spec", every map on the way in either representation
PodObjects ==
    LET Sources == {Kind.Pod, Kind.Pod \o <<"/", "n">>}
        Direct  == {[obj |-> SMap([spec |-> s]), path |-> <<"spec">>] :
                        s \in PodSpecs}
        Nested  == {[obj  |-> SMap([spec |-> Node(a, [template |->
                                        Node(b, [spec |-> s])])]),
                     path |-> <<"spec", "template", "spec">>] :
                        a \in MapKinds, b \in MapKinds, s \in PodSpecs}
    IN  {[obj |-> o.obj, path |-> o.path, source |-> src] :
            o \in Direct \cup Nested, src \in Sources}

InitPod ==
    /\ podObj \in PodObjects
    /\ podImages = <<>>
    /\ podDone = FALSE
    /\ ExtractIdle
    /\ DedupeIdle
    /\ ChartImagesIdle
    /\ WalkIdle
    /\ ToolIdle
    /\ OCIIdle
    /\ image = <<>>
    /\ parsed = FALSE
    /\ ref = ImageReference
    /\ ClientInit

\* one call of extractFromPodSpec
ExtractPodSpec ==
    /\ ~podDone
    /\ podImages' = extractFromPodSpec(podObj.obj, podObj.path, podObj.source)
    /\ podDone' = TRUE
    /\ UNCHANGED <<podObj, image, parsed, ref>>
    /\ UNCHANGED <<extractVars, dedupeVars, chartImagesVars>>
    /\ UNCHANGED <<walkVars, toolVars, ociVars>>
    /\ UNCHANGED clientVars

NextPod == ExtractPodSpec

SpecPod == InitPod /\ [][NextPod]_vars

----------------------------------------------------------------------------
(* Properties of the repository index cache (SpecCache) *)

\* the step is taken by the caller holding the lock, inside getRepo
HolderActs ==
    /\ reposMu # NoOne
    /\ InGetRepo(reposMu)
    /\ pc'[reposMu] # pc[reposMu]
    /\ \A q \in Callers \ {reposMu} : pc'[q] = pc[q]

\* C1: one lock guards the whole get-or-populate operation: at most one
\* caller is between the cache check and the insertion at any time, whatever
\* names the callers ask for, and the map is only ever changed by a step of
\* the caller that holds the lock.
C1_OneLockForWholeOperation ==
    /\ [](Cardinality({p \in Callers : InGetRepo(p)}) <= 1)
    /\ [](\A p \in Callers : InGetRepo(p) => reposMu = p)
    /\ [][(repos' # repos \/ reposAllocated' # reposAllocated) => HolderActs]_vars

\* one caller is downloading an index while another, asking for a different
\* name, waits for the lock
C1_Witness ==
    \E p, q \in Callers :
        /\ pc[p] = "download" /\ reposMu = p
        /\ pc[q] = "lock"
        /\ op[p].repoURL # op[q].repoURL

GetRepoErrors ==
    {"failed to create chart repository", "failed to download repository index",
     "failed to load index file"}

\* C3: when getRepo fails, at any of its three steps, it returns the failure
\* and no repository, and the map holds exactly the entries it held when
\* the call took the lock; a call that finds no entry for its name always
\* goes on to a fresh construction and download, and a cache hit never
\* returns an error.
C3_NothingCachedOnFailure ==
    /\ [][\A p \in Callers :
            (InGetRepo(p) /\ pc'[p] = "got" /\ helmRepo'[p].err # "")
                => /\ repos' = reposAtLock[p]
                   /\ helmRepo'[p].err \in GetRepoErrors
                   /\ helmRepo'[p].repo = NoRepo]_vars
    /\ [][\A p \in Callers :
            (pc[p] = "check" /\ pc'[p] # "check" /\ op[p].repoURL \notin DOMAIN repos)
                => pc'[p] = "new"]_vars
    /\ [][\A p \in Callers :
            (pc[p] = "check" /\ pc'[p] = "got") => helmRepo'[p].err = ""]_vars

\* a call has failed at the load step and a later call for the same name is
\* downloading the index again
C3_Witness ==
    \E p, q \in Callers :
        /\ pc[p] = "got"
        /\ helmRepo[p].err = "failed to load index file"
        /\ pc[q] = "download"
        /\ op[q].repoURL = op[p].repoURL
        /\ op[q].call > op[p].call

----------------------------------------------------------------------------
(* Properties of the client operations (SpecClient) *)

\* the locator starts with the six characters o c i : / /
StartsWithOCIScheme(url) ==
    /\ Len(url) >= 6
    /\ url[1] = "o" /\ url[2] = "c" /\ url[3] = "i"
    /\ url[4] = ":" /\ url[5] = "/" /\ url[6] = "/"

\* C4: every client operation routes by the URL scheme only: a locator with
\* the oci:// prefix goes to the registry, every other locator, the empty
\* string included, goes to getRepo and the cached index.
C4_RoutingByScheme ==
    \A p \in Callers :
        op[p].kind \in OpKinds =>
            /\ pc[p] \in {"lock", "check", "new", "download", "load", "got"}
                    => ~StartsWithOCIScheme(op[p].repoURL)
            /\ pc[p] = "done" =>
                    /\ result[p].via \in {"registry", "index"}
                    /\ result[p].via = "registry" <=> StartsWithOCIScheme(op[p].repoURL)

\* an operation on the near-miss locator "oci:/" has gone through the index
C4_Witness ==
    /\ pc[Main] = "done"
    /\ op[Main].kind = "loadChart"
    /\ op[Main].repoURL = <<"o", "c", "i", ":", "/">>
    /\ result[Main].via = "index"

\* the operation of caller p has finished on the index path with the
\* repository's index in hand
IndexInHand(p, kind) ==
    /\ pc[p] = "done"
    /\ op[p].kind = kind
    /\ ~StartsWithOCIScheme(op[p].repoURL)
    /\ helmRepo[p].err = ""

Descending(versions) ==
    \A i, j \in 1..Len(versions) :
        i < j => SemverMajor(versions[i]) >= SemverMajor(versions[j])

\* C5: for an HTTP locator and a chart present in the index,
\* ListChartVersions returns the version of every entry of the chart, in
\* the order of the cached index, which is descending; and
\* GetChartLatestVersion returns exactly the first element of that list.
C5_VersionsInIndexOrder ==
    \A p \in Callers :
        LET entries == helmRepo[p].repo.IndexFile
            chart   == op[p].chart
        IN  /\ (IndexInHand(p, "ListChartVersions") /\ chart \in DOMAIN entries) =>
                    /\ result[p].ok
                    /\ Len(result[p].list) = Len(entries[chart])
                    /\ \A i \in 1..Len(entries[chart]) :
                            result[p].list[i] = entries[chart][i].Version
                    /\ Descending(result[p].list)
                    /\ entries = repos[op[p].repoURL].IndexFile
            /\ (IndexInHand(p, "GetChartLatestVersion") /\ chart \in DOMAIN entries
                    /\ Len(entries[chart]) > 0) =>
                    /\ result[p].ok
                    /\ result[p].str = entries[chart][1].Version
                    /\ result[p].str = ListChartVersions_HTTP(helmRepo[p], chart).list[1]
                    /\ \A i \in 1..Len(entries[chart]) :
                            SemverMajor(result[p].str) >= SemverMajor(entries[chart][i].Version)

\* the versions served as 9, 10, 2 have been listed as 10, 9, 2
C5_Witness ==
    /\ IndexInHand(Main, "ListChartVersions")
    /\ op[Main].chart = ChartC
    /\ result[Main].list = <<V10, V9, V2>>

\* C6: GetChartLatestVersion fails, and returns no version, whenever there
\* is nothing to select: an OCI locator whose tag list is empty, an HTTP
\* locator whose chart is absent from the index or has an empty entry list;
\* a successful result is never the empty version.
C6_LatestFailsWhenNothingToSelect ==
    \A p \in Callers :
        (pc[p] = "done" /\ op[p].kind = "GetChartLatestVersion") =>
            LET entries == helmRepo[p].repo.IndexFile
                chart   == op[p].chart
            IN  /\ result[p].ok => result[p].str # <<>>
                /\ ~result[p].ok => result[p].str = <<>>
                /\ (StartsWithOCIScheme(op[p].repoURL) /\ op[p].tags.tags = <<>>)
                        => ~result[p].ok
                /\ (IndexInHand(p, "GetChartLatestVersion")
                        /\ (chart \notin DOMAIN entries \/ entries[chart] = <<>>))
                        => ~result[p].ok

\* the latest version of a chart listed with no entries has been refused
C6_Witness ==
    /\ IndexInHand(Main, "GetChartLatestVersion")
    /\ op[Main].chart \in DOMAIN helmRepo[Main].repo.IndexFile
    /\ helmRepo[Main].repo.IndexFile[op[Main].chart] = <<>>
    /\ ~result[Main].ok

\* the chart asked for has no version in the index in hand
NothingToList(p) ==
    /\ IndexInHand(p, "ListChartVersions")
    /\ \/ op[p].chart \notin DOMAIN helmRepo[p].repo.IndexFile
       \/ helmRepo[p].repo.IndexFile[op[p].chart] = <<>>

\* C7 as claimed: on the HTTP path ListChartVersions for a chart absent from
\* the index, or with an empty match, is a failure.
C7_AbsentChartFails ==
    \A p \in Callers : NothingToList(p) => ~result[p].ok

\* C7: on the HTTP path ListChartVersions for a chart absent from the
\* index, or with an empty match, succeeds with the empty list; it fails
\* exactly when getRepo failed.
C7_AbsentChartListsNothing ==
    \A p \in Callers :
        /\ NothingToList(p) => (result[p].ok /\ result[p].list = <<>>)
        /\ (pc[p] = "done" /\ op[p].kind = "ListChartVersions"
                /\ ~StartsWithOCIScheme(op[p].repoURL))
                => (result[p].ok <=> helmRepo[p].err = "")

\* the versions of a chart the index does not list have been asked for
C7_Witness ==
    /\ NothingToList(Main)
    /\ op[Main].chart = ChartD
    /\ ChartD \notin DOMAIN helmRepo[Main].repo.IndexFile
    /\ ChartC \in DOMAIN helmRepo[Main].repo.IndexFile
    /\ result[Main].ok
    /\ result[Main].list = <<>>

----------------------------------------------------------------------------
(* Properties of the normalizer *)

\* the six fields of a returned reference are strings
IsString(s) == s \in Seq(ImageChars \cup {"l", "e", "s", "t", "d", "o", "c", "k", "r", "i", "b", "y"})

\* C8: parseImage is total: for every input it returns an ImageReference
\* whose FullImage is the input, character for character; for the empty
\* input the result is FullImage "", Tag "latest" and empty Registry,
\* Repository and Digest.
C8_ParseImageTotal ==
    parsed =>
        /\ DOMAIN ref = {"Registry", "Repository", "Tag", "Digest", "FullImage", "Source"}
        /\ \A f \in DOMAIN ref : IsString(ref[f])
        /\ ref.FullImage = image
        /\ (image = <<>> =>
                /\ ref.Tag = Latest
                /\ ref.Registry = <<>> /\ ref.Repository = <<>> /\ ref.Digest = <<>>)

\* an image with a tag and a digest has been parsed and kept whole
C8_Witness ==
    /\ parsed
    /\ image = <<"a", ":", "a", "@", "a">>
    /\ ref.FullImage = image

\* the path left after the digest and the tag are split off
RemainingPath(img) ==
    LET d == SplitDigest(ImageReference, img)
    IN  SplitTag(d.ref, d.workingImage).workingImage

SlashCount(s) == Cardinality({i \in 1..Len(s) : s[i] = "/"})
BeforeFirstSlash(s) == Slice(s, 0, Index(s, "/"))
AfterFirstSlash(s) == Slice(s, Index(s, "/") + 1, Len(s))

\* C9: registry and repository follow the number of '/'-separated segments
\* of the remaining path: one segment gives docker.io and library/<segment>;
\* two give {first, second} when the first holds '.' or ':' and otherwise
\* docker.io with the whole path; three or more give the first segment and
\* the rest.  Hence every non-empty image without '/' gets docker.io.
C9_SegmentRules ==
    (parsed /\ image # <<>>) =>
        LET w == RemainingPath(image)
            n == SlashCount(w) + 1
            hostLike == \E i \in 1..Len(BeforeFirstSlash(w)) :
                            BeforeFirstSlash(w)[i] \in {".", ":"}
        IN  /\ n = 1 => ref.Registry = DockerIO /\ ref.Repository = Library \o w
            /\ (n = 2 /\ hostLike) =>
                    ref.Registry = BeforeFirstSlash(w) /\ ref.Repository = AfterFirstSlash(w)
            /\ (n = 2 /\ ~hostLike) => ref.Registry = DockerIO /\ ref.Repository = w
            /\ n >= 3 =>
                    ref.Registry = BeforeFirstSlash(w) /\ ref.Repository = AfterFirstSlash(w)
            /\ SlashCount(image) = 0 => ref.Registry = DockerIO

\* a two-segment image whose first segment is host-like only by its ':'
C9_Witness ==
    /\ parsed
    /\ image = <<"a", ":", "a", "/", "a">>
    /\ ref.Registry = <<"a", ":", "a">>
    /\ ref.Repository = <<"a">>

HasAt(img) == \E i \in 1..Len(img) : img[i] = "@"
\* the text after the last '@', and the text before it
AfterLastAt(img) ==
    CHOOSE d \in {Slice(img, k, Len(img)) : k \in 1..Len(img)} :
        /\ img[Len(img) - Len(d)] = "@"
        /\ \A i \in 1..Len(d) : d[i] # "@"
BeforeLastAt(img) == Slice(img, 0, Len(img) - Len(AfterLastAt(img)) - 1)
DigestStripped(img) == IF HasAt(img) THEN BeforeLastAt(img) ELSE img
\* the tags an image may carry: suffixes after a ':' holding no ':' and no '/'
ExplicitTags(img) ==
    {t \in {Slice(DigestStripped(img), k, Len(DigestStripped(img))) :
                k \in 1..Len(DigestStripped(img))} :
        /\ DigestStripped(img)[Len(DigestStripped(img)) - Len(t)] = ":"
        /\ \A i \in 1..Len(t) : t[i] \notin {":", "/"}}

\* C10: for a non-empty image the digest is everything after the last '@'
\* (empty without '@'); the tag is the explicit tag when one is given, empty
\* when a digest is present and no tag is given, and "latest" exactly when
\* neither is given.
C10_DigestAndTag ==
    (parsed /\ image # <<>>) =>
        /\ ref.Digest = (IF HasAt(image) THEN AfterLastAt(image) ELSE <<>>)
        /\ ExplicitTags(image) # {} => ref.Tag \in ExplicitTags(image)
        /\ (ExplicitTags(image) = {} /\ HasAt(image)) => ref.Tag = <<>>
        /\ (ExplicitTags(image) = {} /\ ~HasAt(image)) => ref.Tag = Latest
        /\ ExplicitTags(image) = {} => (ref.Tag = Latest <=> ~HasAt(image))

\* an image with a digest and no tag has been parsed
C10_Witness ==
    /\ parsed
    /\ image = <<"a", "/", "a", "@", "a">>
    /\ ref.Digest = <<"a">>
    /\ ref.Tag = <<>>

----------------------------------------------------------------------------
(* Properties of manifest extraction (SpecExtract) *)

\* the extractor was handed exactly one document
OneDocument ==
    /\ Len(manifests) = 1
    /\ Len(manifests[1]) = 1
    /\ manifests[1][1].f = "yaml"

TheDocument == manifests[1][1].obj

FullImages(imgs) == [i \in 1..Len(imgs) |-> imgs[i].FullImage]

\* C11: extraction reads the pod spec at the place fixed by the document's
\* kind: spec.template.spec for Deployment, StatefulSet, DaemonSet,
\* ReplicaSet and Job, spec.jobTemplate.spec.template.spec for CronJob, spec
\* for Pod; a document of another kind, or of none, yields no image, whatever
\* pod specs it carries.
C11_KindSelectsPodSpecPath ==
    (extractDone /\ OneDocument /\ manifests[1][1] \in DispatchDocs) =>
        LET kind   == IF "kind" \in DOMAIN TheDocument.v
                         /\ TheDocument.v.kind.t = "string"
                      THEN TheDocument.v.kind.v ELSE <<>>
            placed == DOMAIN TheDocument.v.spec.v
        IN  FullImages(extracted) =
              CASE kind \in {Kind.Deployment, Kind.StatefulSet, Kind.DaemonSet,
                             Kind.ReplicaSet, Kind.Job} ->
                     IF "template" \in placed THEN <<<<"a", ":", "a">>>> ELSE <<>>
                [] kind = Kind.CronJob ->
                     IF "jobTemplate" \in placed THEN <<<<"a", "/", "a">>>> ELSE <<>>
                [] kind = Kind.Pod ->
                     IF "containers" \in placed THEN <<<<"a">>>> ELSE <<>>
                [] OTHER -> <<>>

\* a CronJob carrying a pod spec at all three places has been extracted
C11_Witness ==
    /\ extractDone
    /\ OneDocument
    /\ manifests[1][1] \in DispatchDocs
    /\ "kind" \in DOMAIN TheDocument.v
    /\ TheDocument.v.kind = Str(Kind.CronJob)
    /\ DOMAIN TheDocument.v.spec.v = {"containers", "template", "jobTemplate"}
    /\ FullImages(extracted) = <<<<"a", "/", "a">>>>

\* a container entry that names an image: a mapping whose image is a
\* non-empty string
NamesImage(e) ==
    /\ e.t = "map[interface{}]interface{}"
    /\ "image" \in DOMAIN e.v
    /\ e.v.image.t = "string"
    /\ e.v.image.v # <<>>

\* the number of entries of the list under key that name an image
ImagesNamed(spec, key) ==
    IF key \in DOMAIN spec.v /\ spec.v[key].t = "[]interface{}"
    THEN Cardinality({i \in 1..Len(spec.v[key].v) : NamesImage(spec.v[key].v[i])})
    ELSE 0

\* C12: every extracted ImageReference has a non-empty fullImage; a container
\* or init container whose image is missing, not a string or the empty string
\* produces no ImageReference (one reference per entry that names an image).
C12_NoEmptyFullImage ==
    extractDone =>
        /\ \A i \in 1..Len(extracted) : extracted[i].FullImage # <<>>
        /\ (OneDocument /\ manifests[1][1] \in ContainerDocs) =>
              Len(extracted) = ImagesNamed(TheDocument.v.spec, "containers")
                             + ImagesNamed(TheDocument.v.spec, "initContainers")

\* a Pod with an empty-image container next to a real one has been extracted
C12_Witness ==
    /\ extractDone
    /\ OneDocument
    /\ manifests[1][1] \in ContainerDocs
    /\ "containers" \in DOMAIN TheDocument.v.spec.v
    /\ TheDocument.v.spec.v.containers =
          List(<<IMap([image |-> Str(<<>>)]), IMap([image |-> Str(<<"a">>)])>>)
    /\ "initContainers" \in DOMAIN TheDocument.v.spec.v
    /\ TheDocument.v.spec.v.initContainers = List(<<IMap([name |-> Str(<<"n">>)])>>)
    /\ FullImages(extracted) = <<<<"a">>>>

\* all fragments of all manifests, in order
RECURSIVE AllFragments(_)
AllFragments(ms) ==
    IF ms = <<>> THEN <<>> ELSE Head(ms) \o AllFragments(Tail(ms))

\* the per-fragment results, concatenated in order
RECURSIVE PerFragment(_)
PerFragment(frags) ==
    IF frags = <<>> THEN <<>>
    ELSE extractImagesFromDocument(Head(frags)) \o PerFragment(Tail(frags))

WellFormed(frags) == SelectSeq(frags, LAMBDA f : f.f # "malformed")

\* C13: a fragment the decoder rejects contributes no image and does not end
\* the batch: the result is the in-order concatenation of the per-fragment
\* results, and equals the result over the well-formed fragments alone.
C13_MalformedFragmentIsSkipped ==
    extractDone =>
        /\ extracted = PerFragment(AllFragments(manifests))
        /\ extracted = PerFragment(WellFormed(AllFragments(manifests)))
        /\ extracted =
             extractImagesFromManifests(
                [i \in 1..Len(manifests) |-> WellFormed(manifests[i])])

\* a batch with a rejected fragment between two workloads has been extracted
C13_Witness ==
    /\ extractDone
    /\ Len(manifests) = 2
    /\ Len(manifests[1]) = 2
    /\ manifests[1][1].f = "yaml"
    /\ manifests[1][2].f = "malformed"
    /\ Len(manifests[2]) = 1
    /\ Len(extracted) = 2
    /\ extracted[1] # extracted[2]

----------------------------------------------------------------------------
(* Properties of deduplication (SpecDedupe) *)

Keys(imgs) == {imgs[i].FullImage : i \in 1..Len(imgs)}

Elements(imgs) == {imgs[i] : i \in 1..Len(imgs)}

\* every reordering of a list
Reorderings(imgs) ==
    {[i \in 1..Len(imgs) |-> imgs[p[i]]] :
        p \in {f \in [1..Len(imgs) -> 1..Len(imgs)] :
                 \A i, j \in 1..Len(imgs) : f[i] = f[j] => i = j}}

\* C14: deduplication is idempotent and insensitive to input order on keys:
\* deduplicating its own output gives the same set of references, and every
\* reordering of the input gives the same set of fullImage keys, which is the
\* set of distinct fullImage values of the input, each kept once.
C14_DedupeIdempotentOrderFree ==
    dedupeDone =>
        /\ Keys(deduped) = Keys(images)
        /\ Len(deduped) = Cardinality(Keys(images))
        /\ \A again \in deduplicateImages(deduped) :
              Elements(again) = Elements(deduped)
        /\ \A y \in Reorderings(images) :
              \A other \in deduplicateImages(y) : Keys(other) = Keys(deduped)

\* a list of three references to two images has been deduplicated
C14_Witness ==
    /\ dedupeDone
    /\ Len(images) = 3
    /\ Cardinality(Keys(images)) = 2
    /\ images[1].FullImage = images[3].FullImage
    /\ images[1].Source # images[3].Source
    /\ Len(deduped) = 2

\* the sources of the first n > 0 occurrences of key in imgs, each distinct
\* label once, in first-seen order
RECURSIVE DistinctLabels(_, _, _)
DistinctLabels(imgs, key, n) ==
    IF n = 0 THEN <<>>
    ELSE LET before == DistinctLabels(imgs, key, n - 1)
         IN  IF /\ imgs[n].FullImage = key
                /\ \A j \in 1..(n - 1) :
                      imgs[j].FullImage = key => imgs[j].Source # imgs[n].Source
             THEN Append(before, imgs[n].Source)
             ELSE before

\* C15: after deduplication the source of each image is the ", "-separated
\* list of the distinct source labels of the input occurrences of that
\* fullImage, each label exactly once, in first-seen order.
C15_SourceListsEachLabelOnce ==
    dedupeDone =>
        \A i \in 1..Len(deduped) :
            deduped[i].Source =
                Join(DistinctLabels(images, deduped[i].FullImage, Len(images)),
                     <<",", " ">>)

----------------------------------------------------------------------------
(* Properties of the image listing of a chart (SpecChartImages) *)

\* C16: the list GetChartImages returns, with or without recursion into
\* subcharts, is strictly ascending by fullImage in lexicographic order:
\* sorted, and no fullImage twice.
C16_ListingStrictlyAscending ==
    (chartDone /\ ~chartImages.err) =>
        \A i, j \in 1..Len(chartImages.images) :
            i < j => Less(chartImages.images[i].FullImage,
                          chartImages.images[j].FullImage)

\* a recursive listing of three images, one of them found in the chart and
\* in a subchart, has been returned
C16_Witness ==
    /\ chartDone
    /\ ~chartImages.err
    /\ recursive
    /\ Len(rootChart.deps) = 2
    /\ Len(chartImages.images) = 3
    /\ \E i \in 1..3 : Contains(chartImages.images[i].Source, <<",", " ">>)

----------------------------------------------------------------------------
(* Properties of the dependency walk (SpecWalk) *)

Declared(c) == c.chartYAML.dependencies

\* C17: the walk on a chart without a Chart.yaml among its raw files returns
\* a failure, never an empty successful result.
C17_MissingChartYAMLFails ==
    (walkDone /\ walkedChart.chartYAML.file = "absent") =>
        dependencies.err /\ dependencies.items = <<>>

\* a chart with subcharts and no Chart.yaml has been walked
C17_Witness ==
    /\ walkDone
    /\ walkedChart.chartYAML.file = "absent"
    /\ Len(walkedChart.deps) > 0
    /\ dependencies.err

\* C18: the walk on a chart whose Chart.yaml is present and declares no
\* dependency succeeds with an empty result that is not nil.
C18_NoDependenciesIsEmptyNotNil ==
    (walkDone /\ walkedChart.chartYAML.file = "yaml"
              /\ Declared(walkedChart) = <<>>) =>
        /\ ~dependencies.err
        /\ dependencies.items = <<>>
        /\ ~dependencies.isNil

\* the declared item lacks a name, a version or a repository
Lacking(dep) == <<>> \in {dep.Name, dep.Version, dep.Repository}

\* the first loaded subchart of c with the name and the version of dep, as
\* a set: empty when there is none
FirstMatch(c, dep) ==
    LET hits == {i \in 1..Len(c.deps) : /\ c.deps[i].name = dep.Name
                                        /\ c.deps[i].version = dep.Version}
    IN  {c.deps[i] : i \in {h \in hits : \A k \in hits : h <= k}}

\* the walk of c reaches a declared item lacking a field, in c or in a
\* matched subchart at any depth
RECURSIVE ReachesLacking(_)
ReachesLacking(c) ==
    /\ c.chartYAML.file = "yaml"
    /\ \E n \in 1..Len(Declared(c)) :
          \/ Lacking(Declared(c)[n])
          \/ \E sub \in FirstMatch(c, Declared(c)[n]) : ReachesLacking(sub)

\* C19: when an item reached by the walk, in the root chart or in a matched
\* subchart at any depth, lacks its name, version or repository, the walk
\* fails and returns no item; every item of a successful result carries all
\* three fields non-empty.
C19_IncompleteItemFailsWholeWalk ==
    walkDone =>
        /\ ReachesLacking(walkedChart) =>
              dependencies.err /\ dependencies.items = <<>>
        /\ ~dependencies.err =>
              \A i \in 1..Len(dependencies.items) :
                  ~Contains(dependencies.items[i], <<":", "\"", "\"">>)

\* a chart whose own items are complete and whose matched subchart declares
\* an item without version has been walked
C19_Witness ==
    /\ walkDone
    /\ dependencies.err
    /\ walkedChart.chartYAML.file = "yaml"
    /\ Len(Declared(walkedChart)) = 2
    /\ \A n \in 1..2 : ~Lacking(Declared(walkedChart)[n])
    /\ \E sub \in FirstMatch(walkedChart, Declared(walkedChart)[2]) :
          /\ sub.chartYAML.file = "yaml"
          /\ Len(Declared(sub)) = 1
          /\ Declared(sub)[1].Version = <<>>

\* each declared item followed by the walk of its first matching subchart
RECURSIVE PreOrder(_, _)
PreOrder(c, n) ==
    IF n = 0 THEN <<>>
    ELSE LET dep   == Declared(c)[n]
             below == IF FirstMatch(c, dep) = {} THEN <<>>
                      ELSE LET sub == CHOOSE x \in FirstMatch(c, dep) : TRUE
                           IN  PreOrder(sub, Len(Declared(sub)))
         IN  PreOrder(c, n - 1) \o <<Marshal(dep)>> \o below

\* C20: a successful walk returns, for each declared item in declaration
\* order, its serialized form followed by the whole walk of the first loaded
\* subchart whose name and version both equal the declared ones, and by
\* nothing when no subchart matches: n complete items without a matching
\* subchart give exactly n items, and a subchart matching on the name only
\* is not walked.
C20_PreOrderFirstFullMatch ==
    (walkDone /\ ~dependencies.err) =>
        /\ dependencies.items =
              PreOrder(walkedChart, Len(Declared(walkedChart)))
        /\ (\A n \in 1..Len(Declared(walkedChart)) :
               FirstMatch(walkedChart, Declared(walkedChart)[n]) = {}) =>
              dependencies.items =
                 [n \in 1..Len(Declared(walkedChart)) |->
                     Marshal(Declared(walkedChart)[n])]

\* a chart declaring x 1 and y 1, with subchart x 2 loaded before a
\* subchart x 1 that has dependencies of its own, has been walked
C20_Witness ==
    /\ walkDone
    /\ ~dependencies.err
    /\ Len(Declared(walkedChart)) = 2
    /\ Declared(walkedChart)[1] = dependencyItem(<<"x">>, <<"1">>, <<"r">>)
    /\ Len(walkedChart.deps) = 2
    /\ walkedChart.deps[1].name = <<"x">>
    /\ walkedChart.deps[1].version = <<"2">>
    /\ Len(dependencies.items) = 4
    /\ dependencies.items[3] =
          Marshal(dependencyItem(<<"x">>, <<"2">>, <<"r">>))

----------------------------------------------------------------------------
(* Further properties of the client operations (SpecClient) *)

\* C22: an operation on an oci:// locator neither reads nor writes the
\* repository index cache: from its entry to its return the lock, the map
\* and the record of populated names stay as they are and getRepo is not
\* entered; and a version query on such a locator answers from the tag list
\* the registry returned to this very call.
C22_OCIBypassesCache ==
    [][(\A p \in Callers :
           (StartsWithOCIScheme(op[p].repoURL) \/ StartsWithOCIScheme(op'[p].repoURL)) =>
               /\ UNCHANGED <<reposMu, reposAllocated, repos, populated, reposAtLock>>
               /\ pc'[p] \in {"idle", "done"}
               /\ (pc[p] = "idle" /\ op'[p].kind = "ListChartVersions") =>
                     /\ result'[p].ok = ~op'[p].tags.err
                     /\ result'[p].list = op'[p].tags.tags
               /\ (pc[p] = "idle" /\ op'[p].kind = "GetChartLatestVersion") =>
                     /\ result'[p].ok = (Len(op'[p].tags.tags) > 0)
                     /\ result'[p].ok => result'[p].str = op'[p].tags.tags[1])]_vars

\* with an index in the cache, a version query on an oci:// locator has
\* answered from the registry's tag list
C22_Witness ==
    /\ pc[Main] = "done"
    /\ op[Main].kind = "ListChartVersions"
    /\ StartsWithOCIScheme(op[Main].repoURL)
    /\ DOMAIN repos # {}
    /\ result[Main].ok
    /\ Len(result[Main].list) = 3

----------------------------------------------------------------------------
(* Properties of the tool layer (SpecTool) *)

\* the argument is missing, empty or made of white space only
BlankArgument(args, key) ==
    key \in DOMAIN args => \A i \in 1..Len(args[key]) : args[key][i] \in {" ", "\t", "\n"}

\* the text after the last "/" of the URL up to its first ":"
NameInURL(url) ==
    LET from == CHOOSE i \in 0..Len(url) :
                   /\ i = 0 \/ url[i] = "/"
                   /\ \A j \in (i + 1)..Len(url) : url[j] # "/"
        upto == CHOOSE k \in from..Len(url) :
                   /\ k = Len(url) \/ url[k + 1] = ":"
                   /\ \A j \in (from + 1)..k : url[j] # ":"
    IN  SubSeq(url, from + 1, upto)

\* C21: a call for an HTTP repository with a missing or blank chart_name is
\* rejected with an error result before any latest-version resolution; for
\* an oci:// repository a blank chart_name is replaced by the name found in
\* the URL, and the call is rejected for its chart_name only when that name
\* is empty.
C21_ChartNameRequiredForHTTP ==
    (toolDone /\ "repository_url" \in DOMAIN toolRequest.args
              /\ BlankArgument(toolRequest.args, "chart_name")) =>
        LET url == TrimSpace(toolRequest.args.repository_url)
        IN  IF ~StartsWithOCIScheme(url)
            THEN /\ toolParams.errResult = "chart_name: http"
                 /\ toolParams.lookups = 0
            ELSE IF NameInURL(SubSeq(url, 7, Len(url))) = <<>>
            THEN /\ toolParams.errResult = "chart_name: oci"
                 /\ toolParams.lookups = 0
            ELSE /\ toolParams.errResult \in {"", "latest"}
                 /\ toolParams.errResult = "" =>
                       toolParams.ChartName = NameInURL(SubSeq(url, 7, Len(url)))

\* a version-resolving call for an HTTP repository with a blank chart_name
\* has been rejected
C21_Witness ==
    /\ toolDone
    /\ toolRequest.resolveLatestVersion
    /\ DOMAIN toolRequest.args = {"repository_url", "chart_name"}
    /\ toolRequest.args.repository_url = <<" ", "h", "\n">>
    /\ toolRequest.args.chart_name = <<"\t", " ">>
    /\ toolParams.errResult = "chart_name: http"

----------------------------------------------------------------------------
(* Properties of OCI references (SpecOCI) *)

\* the locator without its oci:// scheme
Stripped(url) == SubSeq(url, 7, Len(url))

\* the text after the last "/" of s
LastSegment(s) ==
    LET from == CHOOSE i \in 0..Len(s) :
                   /\ i = 0 \/ s[i] = "/"
                   /\ \A j \in (i + 1)..Len(s) : s[j] # "/"
    IN  SubSeq(s, from + 1, Len(s))

\* the locator carries no tag and no trailing "/"
PlainLocator(url) ==
    /\ LastSegment(Stripped(url)) # <<>>
    /\ \A i \in 1..Len(LastSegment(Stripped(url))) : LastSegment(Stripped(url))[i] # ":"

\* C23: the reference is the locator without oci://, its host, port and path
\* unchanged, followed by "/" and the chart name exactly when a chart name
\* is given and the path does not end with it, and by ":" and the version
\* exactly when a version is given.
C23_ReferenceKeepsHostAndPath ==
    (ociDone /\ PlainLocator(ociArgs.repoURL)) =>
        ociRef.ref =
            Stripped(ociArgs.repoURL)
            \o (IF /\ ociArgs.chartName # <<>>
                   /\ LastSegment(Stripped(ociArgs.repoURL)) # ociArgs.chartName
                THEN <<"/">> \o ociArgs.chartName ELSE <<>>)
            \o (IF ociArgs.version # <<>> THEN <<":">> \o ociArgs.version ELSE <<>>)

\* C24: the chart name of a locator is the last "/"-delimited segment of the
\* locator without its scheme, cut before its ":tag"; it holds neither "/"
\* nor ":".
C24_ChartNameIsLastSegment ==
    ociDone =>
        /\ ociRef.name = NameInURL(Stripped(ociArgs.repoURL))
        /\ HasPrefix(LastSegment(Stripped(ociArgs.repoURL)), ociRef.name)
        /\ \A i \in 1..Len(ociRef.name) : ociRef.name[i] \notin {"/", ":"}

\* the chart name of a locator with port, two path segments and a tag has
\* been computed
C24_Witness ==
    /\ ociDone
    /\ ociArgs.repoURL = OCIScheme \o <<"r", ":", "5", "/", "o", "/", "c", ":", "9">>
    /\ ociRef.name = ChartC

\* C30: with a version given, the reference carries exactly one tag, the
\* version, also when the locator has a tag of its own and whatever the
\* chart name; and the reference is the same for an empty chart name and
\* for the chart name of the locator.
C30_OneTagTheVersion ==
    (ociDone /\ ociArgs.version # <<>>) =>
        /\ LET last == LastSegment(ociRef.ref)
           IN  /\ Cardinality({i \in 1..Len(last) : last[i] = ":"}) = 1
               /\ HasSuffix(last, <<":">> \o ociArgs.version)
        /\ parseOCIReference(ociArgs.repoURL, <<>>, ociArgs.version) =
              parseOCIReference(ociArgs.repoURL,
                                ExtractChartNameFromOCI(ociArgs.repoURL),
                                ociArgs.version)

----------------------------------------------------------------------------
(* Further properties of the normalizer (SpecImage) *)

\* the text after the last ":" of s, and the text before that ":"
AfterLastColon(s) ==
    SubSeq(s, 1 + CHOOSE i \in 1..Len(s) :
                     s[i] = ":" /\ \A j \in (i + 1)..Len(s) : s[j] # ":", Len(s))
BeforeLastColon(s) == SubSeq(s, 1, Len(s) - Len(AfterLastColon(s)) - 1)

\* the digest-stripped image starts with host:port followed by "/"
HostPortPath(w) ==
    /\ \E i \in 1..Len(w) : w[i] = "/"
    /\ \E i \in 1..Len(BeforeFirstSlash(w)) : BeforeFirstSlash(w)[i] = ":"

\* C25: the text after the last ':' of the digest-stripped image is a tag
\* only when it holds no '/': for host:port/path without tag the registry
\* is host:port and the tag keeps its default; for host:port/path:tag the
\* registry is host:port and the tag is the text after the last ':'.
C25_PortIsNotATag ==
    (parsed /\ HostPortPath(DigestStripped(image))) =>
        LET w == DigestStripped(image)
        IN  /\ ref.Registry = BeforeFirstSlash(w)
            /\ IF \E i \in 1..Len(AfterLastColon(w)) : AfterLastColon(w)[i] = "/"
               THEN /\ ref.Tag = (IF HasAt(image) THEN <<>> ELSE Latest)
                    /\ ref.Repository = AfterFirstSlash(w)
               ELSE /\ ref.Tag = AfterLastColon(w)
                    /\ ref.Repository = AfterFirstSlash(BeforeLastColon(w))

\* an image host:port/path/path:tag has been parsed
C25_Witness ==
    /\ parsed
    /\ image = <<"a", ".", "a", ":", "a", "/", "a", "/", "a", ":", "a">>
    /\ ref.Registry = <<"a", ".", "a", ":", "a">>
    /\ ref.Repository = <<"a", "/", "a">>
    /\ ref.Tag = <<"a">>

----------------------------------------------------------------------------
(* Further properties of manifest extraction (SpecExtract) *)

\* the provenance label of a document: kind/name when metadata is a mapping
\* with a string name, the kind alone otherwise
ProvenanceLabel(obj) ==
    LET kind == IF "kind" \in DOMAIN obj.v /\ obj.v.kind.t = "string"
                THEN obj.v.kind.v ELSE <<>>
        named == /\ "metadata" \in DOMAIN obj.v
                 /\ obj.v.metadata.t = "map[interface{}]interface{}"
                 /\ "name" \in DOMAIN obj.v.metadata.v
                 /\ obj.v.metadata.v.name.t = "string"
                 /\ obj.v.metadata.v.name.v # <<>>
    IN  IF named THEN kind \o <<"/">> \o obj.v.metadata.v.name.v ELSE kind

\* C26: every extracted reference carries the label of its document,
\* kind/name when metadata.name is present and readable and the kind alone
\* otherwise, followed by " (init)" exactly for the images found under
\* initContainers.
C26_SourceNamesDocument ==
    (extractDone /\ OneDocument /\ manifests[1][1] \in DispatchDocs \cup ContainerDocs) =>
        LET label == ProvenanceLabel(TheDocument)
            plain == IF manifests[1][1] \in ContainerDocs
                     THEN ImagesNamed(TheDocument.v.spec, "containers")
                     ELSE IF label = Kind.CronJob
                             \/ HasPrefix(label, Kind.CronJob \o <<"/">>)
                          THEN 0 ELSE Len(extracted)
        IN  \A i \in 1..Len(extracted) :
                extracted[i].Source =
                    (IF i <= plain THEN label ELSE label \o <<" ", "(", "i", "n", "i", "t", ")">>)

\* a named Pod with a container and an init container has been extracted
C26_Witness ==
    /\ extractDone
    /\ OneDocument
    /\ manifests[1][1] \in ContainerDocs
    /\ Len(extracted) = 2
    /\ extracted[1].Source = Kind.Pod \o <<"/", "n">>
    /\ extracted[2].Source = Kind.Pod \o <<"/", "n", " ", "(", "i", "n", "i", "t", ")">>

----------------------------------------------------------------------------
(* Properties of extractFromPodSpec (SpecPod) *)

\* the same tree with every map below the top in the any-keyed
\* representation
RECURSIVE AnyKeyed(_)
AnyKeyed(n) ==
    IF n.t \in MapKinds
    THEN IMap([k \in DOMAIN n.v |-> AnyKeyed(n.v[k])])
    ELSE IF n.t = "[]interface{}"
         THEN List([i \in DOMAIN n.v |-> AnyKeyed(n.v[i])])
         ELSE n

C27_StringKeyedSpecLost ==
    /\ podDone
    /\ Walk(podObj.obj, podObj.path).t = "map[string]interface{}"
    /\ Get(Walk(podObj.obj, podObj.path), "initContainers").t = "[]interface{}"
    /\ podImages = <<>>

\* on the path itself either representation is walked through
C27_PathEitherRepresentation ==
    (podDone /\ Walk(podObj.obj, podObj.path).t = "map[interface{}]interface{}") =>
        podImages = extractFromPodSpec(SMap([spec |-> Walk(podObj.obj, podObj.path)]),
                                       <<"spec">>, podObj.source)

\* a shape mismatch yields no image
C27_MismatchIsNotFound ==
    (podDone /\ Walk(podObj.obj, podObj.path).t \notin MapKinds) => podImages = <<>>

----------------------------------------------------------------------------
(* Further properties of deduplication (SpecDedupe) *)

\* the index of the first reference of imgs with the fullImage key
FirstSeen(imgs, key) ==
    CHOOSE i \in 1..Len(imgs) :
        /\ imgs[i].FullImage = key
        /\ \A j \in 1..(i - 1) : imgs[j].FullImage # key

\* the source accumulated for key over the first n references of imgs: the
\* first-seen source, then ", " and each later source that is not already a
\* substring of what has been accumulated
RECURSIVE Accumulated(_, _, _)
Accumulated(imgs, key, n) ==
    IF n <= FirstSeen(imgs, key) THEN imgs[FirstSeen(imgs, key)].Source
    ELSE LET acc == Accumulated(imgs, key, n - 1)
         IN  IF imgs[n].FullImage = key /\ ~Contains(acc, imgs[n].Source)
             THEN acc \o <<",", " ">> \o imgs[n].Source
             ELSE acc

\* C28: each reference of the result is the first-seen input reference of its
\* fullImage with nothing changed but the source, which is the accumulated
\* source: ", " and the new source appended when the new source is not a
\* substring of the accumulated one, unchanged otherwise; a reference whose
\* fullImage occurs once is the input reference itself.
C28_CollisionChangesSourceOnly ==
    dedupeDone =>
        \A i \in 1..Len(deduped) :
            LET key   == deduped[i].FullImage
                first == images[FirstSeen(images, key)]
            IN  /\ key \in Keys(images)
                /\ deduped[i] =
                      [first EXCEPT !.Source = Accumulated(images, key, Len(images))]
                /\ Cardinality({j \in 1..Len(images) : images[j].FullImage = key}) = 1
                      => deduped[i] = first

\* three references to one image: the second source is a substring of the
\* first and is not appended, the third is appended
C28_Witness ==
    /\ dedupeDone
    /\ Len(images) = 3
    /\ Cardinality(Keys(images)) = 1
    /\ images[1].Source = Kind.Pod \o <<"/", "n">>
    /\ images[2].Source = Kind.Pod
    /\ images[3].Source = Kind.Job \o <<"/", "n">>
    /\ Len(deduped) = 1
    /\ deduped[1].Source = Kind.Pod \o <<"/", "n", ",", " ">> \o Kind.Job \o <<"/", "n">>

----------------------------------------------------------------------------
(* Liveness of the repository index cache (SpecCacheFair) *)

\* C29: getRepo releases the lock on every exit path, so when every call into
\* the helm library returns, every caller waiting for the lock eventually
\* acquires it and every call of getRepo eventually returns, whether or not
\* another caller's populate has failed.
C29_EveryCallReturns ==
    \A p \in Callers :
        /\ (pc[p] = "lock") ~> (reposMu = p)
        /\ (pc[p] = "lock") ~> (pc[p] = "got")

\* a caller that entered getRepo first holds the lock after a later caller
\* went through getRepo ahead of it and failed to populate
C29_Witness ==
    \E p, q \in Callers :
        /\ p # q
        /\ pc[p] = "got"
        /\ helmRepo[p].err # ""
        /\ op[q].kind = "getRepo"
        /\ op[q].call < op[p].call
        /\ reposMu = q
        /\ pc[q] = "check"

====
